---- MODULE Spec2Model ----
(***************************************************************************)
(* A model of the lox_lang tree-walking interpreter: the scope chain       *)
(* (symbol_table/mod.rs), the callables (interpreter/callable.rs), the     *)
(* evaluator (interpreter/mod.rs) and the recursive-descent parser         *)
(* (parser/parser.rs).                                                     *)
(*                                                                         *)
(* The evaluator is a recursive visitor; here its recursion is made        *)
(* explicit as a control stack.  A frame is either a statement still to be *)
(* executed (Interpreter::execute), an expression still to be evaluated    *)
(* (Interpreter::evaluate), or the rest of a visitor method waiting for    *)
(* the value of a sub-expression.  `val` is the Option<Object> returned by *)
(* the evaluate call that finished last.                                   *)
(*                                                                         *)
(* Memory: `maps` is the heap of Rc<RefCell<HashMap<String, Object>>>      *)
(* cells and `tables` the heap of Rc<RefCell<SymbolTable>> cells; a        *)
(* SymbolTable struct is [enclosing |-> table index or 0, values |-> map   *)
(* index].  Cells are never freed in the model.                            *)
(*                                                                         *)
(* Numbers: f64 values are modelled by integers; the inputs use only       *)
(* integer-valued literals and exact arithmetic.                           *)
(***************************************************************************)
EXTENDS Integers, Sequences, FiniteSets, TLC

VARIABLES
    input,         \* the Vec<char> handed to lexer().parse
    tokens,        \* Parser.tokens: the token sequence handed to Parser::new
    statements,    \* the Vec<Stmt> returned by Parser::parse / given to interpret
    pc,            \* "input" | "tokens" | "parsed" | "run" | "done" | "panic"
    stack,         \* control stack of the evaluator (head = innermost)
    val,           \* Option<Object> of the evaluate call that returned last
    tables,        \* heap of SymbolTable cells
    maps,          \* heap of HashMap cells
    symbol_table,  \* Interpreter.symbol_table (index into tables)
    globals,       \* Interpreter.globals (index into tables)
    ret,           \* Interpreter.ret: Option<Either<(), Object>>
    out,           \* lines written to standard output by println!
    last           \* history: name of the step taken last

vars == <<input, tokens, statements, pc, stack, val, tables, maps, symbol_table,
          globals, ret, out, last>>

-----------------------------------------------------------------------------
(* Values: Option, Literal, Object                                         *)

NoneV == [t |-> "None"]
Float(n) == [t |-> "Float", v |-> n]
Bool(b) == [t |-> "Bool", v |-> b]
String(s) == [t |-> "String", v |-> s]
Nil == [t |-> "Nil"]
ClockFn == [t |-> "C", kind |-> "Clock"]
FunctionObj(decl, closure) ==
    [t |-> "C", kind |-> "Function", declaration |-> decl, closure |-> closure]

Some(x) == [t |-> "Some", v |-> x]

Left == [t |-> "Left"]
Right(v) == [t |-> "Right", v |-> v]

(* Tokens that occur inside the syntax tree *)
Identifier(n) == [tok |-> "Identifier", v |-> n]

-----------------------------------------------------------------------------
(* Syntax tree: parser/ast.rs                                              *)

L(lit) == [k |-> "L", v |-> lit]
Unary(o, r) == [k |-> "Unary", operator |-> o, right |-> r]
Binary(l, o, r) == [k |-> "Binary", left |-> l, operator |-> o, right |-> r]
Call(c, args) == [k |-> "Call", callee |-> c, arguments |-> args]
Logical(l, o, r) == [k |-> "Logical", left |-> l, operator |-> o, right |-> r]
Grouping(e) == [k |-> "Grouping", expression |-> e]
Assign(n, e) == [k |-> "Assign", name |-> n, value |-> e]
Variable(n) == [k |-> "Variable", name |-> n]

ExprStmt(e) == [k |-> "Expr", e |-> e]
PrintStmt(e) == [k |-> "Print", e |-> e]
VariableStmt(n, init) == [k |-> "Variable", name |-> n, initializer |-> init]
Block(ss) == [k |-> "Block", stmts |-> ss]
If(c, th, el) ==
    [k |-> "If", condition |-> c, then_branch |-> th, else_branch |-> el]
While(c, b) == [k |-> "While", condition |-> c, body |-> b]
Function(n, ps, b) ==
    [k |-> "Function", name |-> n, parameters |-> ps, body |-> b, ret |-> NoneV]
Return(r) == [k |-> "Return", r |-> r]

(* shorthands used to write the inputs *)
Num(n) == L(Float(n))
Str(s) == L(String(s))
Var(n) == Variable(Identifier(n))

-----------------------------------------------------------------------------
(* Scope chain: symbol_table/mod.rs                                        *)

(* SymbolTable::new *)
NewTable(mid) == [enclosing |-> 0, values |-> mid]

(* HashMap::insert *)
Insert(m, name, value) == (name :> value) @@ m

(* a faulty define: a name the enclosing table already binds is           *)
(* overwritten there instead of being declared in the table's own map      *)
define_overwrites_enclosing(ms, st, name, value) ==
    IF st.enclosing # 0 /\ name \in DOMAIN ms[tables[st.enclosing].values]
    THEN [ms EXCEPT ![tables[st.enclosing].values] = Insert(@, name, value)]
    ELSE [ms EXCEPT ![st.values] = Insert(@, name, value)]

(* SymbolTable::define: insert or overwrite in the table's own map *)
define(ms, st, name, value) ==
    [ms EXCEPT ![st.values] = Insert(@, name, value)]

(* SymbolTable::exists *)
exists(ms, st, name) == name \in DOMAIN ms[st.values]

(* a faulty get: the outermost table that defines the name wins *)
RECURSIVE get_outermost(_, _, _, _)
get_outermost(ms, ts, st, name) ==
    LET r == IF st.enclosing # 0
             THEN get_outermost(ms, ts, ts[st.enclosing], name)
             ELSE [ok |-> FALSE, v |-> NoneV]
    IN  IF ~r.ok /\ name \in DOMAIN ms[st.values]
        THEN [ok |-> TRUE, v |-> ms[st.values][name]]
        ELSE r

(* SymbolTable::get: own map first, then the enclosing table, else panic *)
RECURSIVE get(_, _, _, _)
get(ms, ts, st, name) ==
    IF name \in DOMAIN ms[st.values]
    THEN [ok |-> TRUE, v |-> ms[st.values][name]]
    ELSE IF st.enclosing # 0
         THEN get(ms, ts, ts[st.enclosing], name)
         ELSE [ok |-> FALSE, v |-> NoneV]

(* a faulty assign: a name that no table of the chain defines is declared  *)
(* in the outermost table                                                  *)
RECURSIVE assign_declares(_, _, _, _, _)
assign_declares(ms, ts, st, name, value) ==
    IF name \in DOMAIN ms[st.values] \/ st.enclosing = 0
    THEN [ok |-> TRUE, maps |-> [ms EXCEPT ![st.values] = Insert(@, name, value)]]
    ELSE assign_declares(ms, ts, ts[st.enclosing], name, value)

(* SymbolTable::assign: overwrite where the name is found, else panic *)
RECURSIVE assign(_, _, _, _, _)
assign(ms, ts, st, name, value) ==
    IF name \in DOMAIN ms[st.values]
    THEN [ok |-> TRUE, maps |-> [ms EXCEPT ![st.values] = Insert(@, name, value)]]
    ELSE IF st.enclosing # 0
         THEN assign(ms, ts, ts[st.enclosing], name, value)
         ELSE [ok |-> FALSE, maps |-> ms]

(* SymbolTable::deep_copy: a new map cell with the same entries, the same  *)
(* enclosing table                                                         *)
deep_copy(ms, st) ==
    [maps |-> Append(ms, ms[st.values]),
     table |-> [enclosing |-> st.enclosing, values |-> Len(ms) + 1]]

-----------------------------------------------------------------------------
(* Textual form written by visit_print                                     *)

(* {:?} of an integer-valued f64 *)
FmtFloat(n) == ToString(n) \o ".0"

(* Display for Token, for the tokens that name a function *)
FmtToken(tk) == IF tk.tok = "Identifier" THEN tk.v ELSE tk.tok

FmtObject(o) ==
    CASE o.t = "Float" -> FmtFloat(o.v)
      [] o.t = "Bool" -> IF o.v THEN "true" ELSE "false"
      [] o.t = "String" -> "\"" \o o.v \o "\""
      [] o.t = "Nil" -> "()"
      [] o.t = "C" -> IF o.kind = "Clock"
                      THEN "<native fn clock>"
                      ELSE "<fn " \o FmtToken(o.declaration.name) \o ">"

-----------------------------------------------------------------------------
(* Callable::arity                                                         *)

arity(c) ==
    IF c.kind = "Clock"
    THEN 0
    ELSE IF c.declaration.parameters = NoneV
         THEN 0
         ELSE Len(c.declaration.parameters.v)

-----------------------------------------------------------------------------
(* Parser: parser/parser.rs                                                *)
(*                                                                         *)
(* Every parsing method is an operator on the token sequence ts and the    *)
(* position c (Parser.current, counted from 1 here); it yields the node    *)
(* and the new position, or Abort when the method panics (an unexpected    *)
(* token, or unwrap() of tokens.get(current) past the end).                *)

Tk(name) == [tok |-> name]
O(o) == [tok |-> "O", v |-> o]
FloatTk(n) == [tok |-> "Float", v |-> n]
StringTk(x) == [tok |-> "String", v |-> x]
BoolTk(b) == [tok |-> "Bool", v |-> b]

-----------------------------------------------------------------------------
(* Lexer: lexer/mod.rs                                                     *)
(*                                                                         *)
(* The source is a sequence of characters (strings of length one).  Every  *)
(* token rule is an operator on the source cs and a position i; it yields  *)
(* the token and the position after it, or NoMatch.  The rules are pom     *)
(* parsers: `a | b` takes b only when a fails, repeat(0..) stops at the    *)
(* first failure and succeeds with what it has, and Parser::parse does not *)
(* ask for the end of the input.                                           *)

Illegal(x) == [tok |-> "Illegal", v |-> x]

NoMatch == [ok |-> FALSE]
Match(tk, i) == [ok |-> TRUE, tok |-> tk, pos |-> i]
OrElse(r, s) == IF r.ok THEN r ELSE s

(* char::is_alphabetic and char::is_numeric, on ASCII *)
Alphabetic ==
    {"a", "b", "c", "d", "e", "f", "g", "h", "i", "j", "k", "l", "m", "n",
     "o", "p", "q", "r", "s", "t", "u", "v", "w", "x", "y", "z",
     "A", "B", "C", "D", "E", "F", "G", "H", "I", "J", "K", "L", "M", "N",
     "O", "P", "Q", "R", "S", "T", "U", "V", "W", "X", "Y", "Z"}
Numeric == {"0", "1", "2", "3", "4", "5", "6", "7", "8", "9"}

(* the position after the longest run of characters of cs, from i on,     *)
(* that are in the set chars: one_of / is_a followed by repeat             *)
RECURSIVE Run(_, _, _)
Run(cs, i, chars) ==
    IF i <= Len(cs) /\ cs[i] \in chars THEN Run(cs, i + 1, chars) ELSE i

(* the position of the next character ch of cs from i on, or past the end  *)
(* of cs: none_of(ch).repeat(0..)                                          *)
RECURSIVE RunUntil(_, _, _)
RunUntil(cs, i, ch) ==
    IF i <= Len(cs) /\ cs[i] # ch THEN RunUntil(cs, i + 1, ch) ELSE i

(* the characters cs[i], ..., cs[j - 1] collected into a String *)
RECURSIVE Collect(_, _, _)
Collect(cs, i, j) == IF i >= j THEN "" ELSE cs[i] \o Collect(cs, i + 1, j)

(* str::parse::<f64> of a run of digits *)
RECURSIVE ParseDigits(_, _, _, _)
ParseDigits(cs, i, j, acc) ==
    IF i >= j
    THEN acc
    ELSE ParseDigits(cs, i + 1, j,
                     10 * acc + (CHOOSE d \in 0..9 : ToString(d) = cs[i]))

(* str::parse::<f64> of digits.digits: the integer when the fraction is    *)
(* zero, else the number kept as its two parts                             *)
ParseDecimal(cs, i, dot, j) ==
    IF ParseDigits(cs, dot + 1, j, 0) = 0
    THEN ParseDigits(cs, i, dot, 0)
    ELSE [whole |-> ParseDigits(cs, i, dot, 0),
          fraction |-> Collect(cs, dot + 1, j)]

(* whitespace().opt(): the position after the white space at i *)
whitespace(cs, i) == Run(cs, i, {" ", "\t", "\r", "\n"})

one_char(cs, i) ==
    IF i > Len(cs)
    THEN NoMatch
    ELSE CASE cs[i] = "(" -> Match(Tk("LeftParen"), i + 1)
           [] cs[i] = ")" -> Match(Tk("RightParen"), i + 1)
           [] cs[i] = "{" -> Match(Tk("LeftBrace"), i + 1)
           [] cs[i] = "}" -> Match(Tk("RightBrace"), i + 1)
           [] cs[i] = "," -> Match(Tk("Comma"), i + 1)
           [] cs[i] = ";" -> Match(Tk("Semicolon"), i + 1)
           [] cs[i] = "." -> Match(Tk("Dot"), i + 1)
           [] cs[i] = "+" -> Match(O("Plus"), i + 1)
           [] cs[i] = "-" -> Match(O("Minus"), i + 1)
           [] cs[i] = "/" -> Match(O("Slash"), i + 1)
           [] cs[i] = "*" -> Match(O("Star"), i + 1)
           [] cs[i] = "!" -> Match(O("Not"), i + 1)
           [] cs[i] = "=" -> Match(Tk("Assign"), i + 1)
           [] cs[i] = "<" -> Match(O("LessThan"), i + 1)
           [] cs[i] = ">" -> Match(O("GreaterThan"), i + 1)
           [] OTHER -> NoMatch

two_char(cs, i) ==
    IF i + 1 > Len(cs)
    THEN NoMatch
    ELSE CASE cs[i] = "=" /\ cs[i + 1] = "=" -> Match(O("Equal"), i + 2)
           [] cs[i] = "!" /\ cs[i + 1] = "=" -> Match(O("NotEqual"), i + 2)
           [] cs[i] = "<" /\ cs[i + 1] = "=" ->
                  Match(O("LessThanOrEqual"), i + 2)
           [] cs[i] = ">" /\ cs[i + 1] = "=" ->
                  Match(O("GreaterThanOrEqual"), i + 2)
           [] cs[i] = "/" /\ cs[i + 1] = "/" -> Match(Tk("Comment"), i + 2)
           [] OTHER -> NoMatch

(* the match on the text of a word in alpha_num_literal *)
Keyword(lit_str) ==
    CASE lit_str = "and" -> O("And")
      [] lit_str = "class" -> Tk("Class")
      [] lit_str = "else" -> Tk("Else")
      [] lit_str = "false" -> BoolTk(FALSE)
      [] lit_str = "true" -> BoolTk(TRUE)
      [] lit_str = "fun" -> Tk("Fun")
      [] lit_str = "for" -> Tk("For")
      [] lit_str = "if" -> Tk("If")
      [] lit_str = "nil" -> Tk("Nil")
      [] lit_str = "or" -> O("Or")
      [] lit_str = "print" -> Tk("Print")
      [] lit_str = "return" -> Tk("Return")
      [] lit_str = "super" -> Tk("Super")
      [] lit_str = "this" -> Tk("This")
      [] lit_str = "var" -> Tk("Var")
      [] lit_str = "while" -> Tk("While")
      [] OTHER -> Identifier(lit_str)

(* a letter ahead, then the run of letters and digits *)
alpha_num_literal(cs, i) ==
    IF i <= Len(cs) /\ cs[i] \in Alphabetic
    THEN Match(Keyword(Collect(cs, i,
                   Run(cs, i, Alphabetic \cup Numeric))),
               Run(cs, i, Alphabetic \cup Numeric))
    ELSE NoMatch

int_literal(cs, i) ==
    IF i <= Len(cs) /\ cs[i] \in Numeric
    THEN Match(FloatTk(ParseDigits(cs, i,
                   Run(cs, i, Numeric), 0)),
               Run(cs, i, Numeric))
    ELSE NoMatch

(* the rest of float_literal once the digits before the dot are read *)
float_literal_fraction(cs, i, dot) ==
    IF /\ dot + 1 <= Len(cs)
       /\ cs[dot] = "."
       /\ cs[dot + 1] \in Numeric
    THEN Match(FloatTk(ParseDecimal(cs, i, dot,
                   Run(cs, dot + 1, Numeric))),
               Run(cs, dot + 1, Numeric))
    ELSE NoMatch

float_literal(cs, i) ==
    IF i <= Len(cs) /\ cs[i] \in Numeric
    THEN float_literal_fraction(cs, i, Run(cs, i, Numeric))
    ELSE NoMatch

(* the rest of string once the characters up to the next quote are read *)
string_close(cs, i, close) ==
    IF close <= Len(cs)
    THEN Match(StringTk(Collect(cs, i + 1, close)), close + 1)
    ELSE NoMatch

string(cs, i) ==
    IF i <= Len(cs) /\ cs[i] = "\""
    THEN string_close(cs, i, RunUntil(cs, i + 1, "\""))
    ELSE NoMatch

(* the alternatives in a faulty order: the single characters are tried     *)
(* before the pairs                                                        *)
token_single_first(cs, i) ==
    OrElse(alpha_num_literal(cs, i),
    OrElse(float_literal(cs, i),
    OrElse(int_literal(cs, i),
    OrElse(one_char(cs, i),
    OrElse(two_char(cs, i),
           string(cs, i))))))

(* the alternatives of lexer, in their order *)
token(cs, i) ==
    OrElse(alpha_num_literal(cs, i),
    OrElse(float_literal(cs, i),
    OrElse(int_literal(cs, i),
    OrElse(two_char(cs, i),
    OrElse(one_char(cs, i),
           string(cs, i))))))

(* lexer: white space, a token, white space, repeated until an iteration   *)
(* fails; the result is Ok with the tokens of the iterations that matched  *)
(* (pos: where the iteration that failed began)                            *)
RECURSIVE lexer(_, _, _)
lexer_repeat(cs, i, tokens_so_far, r) ==
    IF r.ok
    THEN lexer(cs, whitespace(cs, r.pos), Append(tokens_so_far, r.tok))
    ELSE [ok |-> TRUE, tokens |-> tokens_so_far, pos |-> i]

lexer(cs, i, tokens_so_far) ==
    lexer_repeat(cs, i, tokens_so_far, token(cs, whitespace(cs, i)))

-----------------------------------------------------------------------------
(* Parsing methods                                                         *)

Abort == [ok |-> FALSE]
Parsed(node, c) == [ok |-> TRUE, node |-> node, cur |-> c]

(* tokens.get(current) is Some(token) with this name *)
At(ts, c, name) == c <= Len(ts) /\ ts[c].tok = name
AtOp(ts, c, ops) == c <= Len(ts) /\ ts[c].tok = "O" /\ ts[c].v \in ops

(* Parser::consume *)
consume(ts, c, name) ==
    IF At(ts, c, name) THEN Parsed(NoneV, c + 1) ELSE Abort

(* A call of a parsing method followed by the rest of the caller: a panic   *)
(* in the callee unwinds through the caller, otherwise the caller goes on   *)
(* with the node and the position the callee returned                       *)
Bind(r, rest(_)) == IF r.ok THEN rest(r) ELSE Abort

(* The parsing methods call each other in cycles: primary and the argument *)
(* lists call expression, the compound statements call statement and       *)
(* delaration.                                                             *)
RECURSIVE primary(_, _), arguments_loop(_, _, _), finish_call(_, _, _),
          call_loop(_, _, _), call(_, _), unary(_, _),
          multiplication_loop(_, _, _), multiplication_operand(_, _, _, _),
          multiplication(_, _),
          addition_loop(_, _, _), addition_operand(_, _, _, _),
          addition(_, _),
          comparsion_loop(_, _, _), comparsion_operand(_, _, _, _),
          comparsion(_, _),
          equality_loop(_, _, _), equality_operand(_, _, _, _),
          equality(_, _),
          and_loop(_, _, _), and(_, _), or_loop(_, _, _), or_operand(_, _, _, _),
          or(_, _),
          assignment_value(_, _), assignment(_, _), expression(_, _),
          expr_stmt(_, _), print(_, _), var_decl(_, _),
          func_decl_body(_, _, _), func_decl(_, _),
          delaration(_, _), block_loop(_, _, _), block(_, _),
          while_stmt_body(_, _), while_stmt(_, _),
          if_stmt_else(_, _, _), if_stmt_then(_, _), if_stmt(_, _),
          for_stmt_body(_, _, _, _), for_stmt_increment(_, _, _),
          for_stmt_condition(_, _), for_stmt(_, _), statement(_, _),
          parse_loop(_, _, _)

(* Parser::primary *)
primary(ts, c) ==
    IF c > Len(ts)
    THEN Abort
    ELSE CASE ts[c].tok = "Identifier" -> Parsed(Variable(ts[c]), c + 1)
           [] ts[c].tok = "LeftParen" ->
                  Bind(expression(ts, c + 1),
                       LAMBDA e : Bind(consume(ts, e.cur, "RightParen"),
                                       LAMBDA p : Parsed(Grouping(e.node), p.cur)))
           [] ts[c].tok = "Bool" -> Parsed(L(Bool(ts[c].v)), c + 1)
           [] ts[c].tok = "Nil" -> Parsed(L(Nil), c + 1)
           [] ts[c].tok = "Float" -> Parsed(L(Float(ts[c].v)), c + 1)
           [] ts[c].tok = "String" -> Parsed(L(String(ts[c].v)), c + 1)
           [] OTHER -> Abort

(* the while loop of Parser::finish_call: one more argument per comma *)
arguments_loop(ts, c, arguments) ==
    IF c > Len(ts)
    THEN Abort
    ELSE IF ts[c].tok = "Comma"
         THEN Bind(expression(ts, c + 1),
                   LAMBDA e : arguments_loop(ts, e.cur, Append(arguments, e.node)))
         ELSE Parsed(arguments, c)

(* the limit on the parameters of a declaration and the arguments of a     *)
(* call                                                                    *)
MaxArguments == 255

(* Parser::finish_call: the length check is made once, on the empty list,  *)
(* before the first argument is parsed                                     *)
finish_call(ts, c, callee) ==
    IF c > Len(ts)
    THEN Abort
    ELSE Bind(IF ts[c].tok # "RightParen"
              THEN IF Len(<<>>) >= MaxArguments
                   THEN Abort
                   ELSE Bind(expression(ts, c),
                             LAMBDA e : arguments_loop(ts, e.cur, <<e.node>>))
              ELSE Parsed(<<>>, c),
              LAMBDA args : Bind(consume(ts, args.cur, "RightParen"),
                                 LAMBDA p : Parsed(Call(callee, args.node), p.cur)))

(* the loop of Parser::call: one call per left parenthesis *)
call_loop(ts, c, expr) ==
    IF c > Len(ts)
    THEN Abort
    ELSE IF ts[c].tok = "LeftParen"
         THEN Bind(finish_call(ts, c + 1, expr),
                   LAMBDA r : call_loop(ts, r.cur, r.node))
         ELSE Parsed(expr, c)

(* Parser::call *)
call(ts, c) ==
    Bind(primary(ts, c), LAMBDA r : call_loop(ts, r.cur, r.node))

(* Parser::unary *)
unary(ts, c) ==
    IF c > Len(ts)
    THEN Abort
    ELSE IF AtOp(ts, c, {"Not", "Minus"})
         THEN Bind(unary(ts, c + 1),
                   LAMBDA r : Parsed(Unary(ts[c].v, r.node), r.cur))
         ELSE call(ts, c)

(* the while loop of Parser::multiplication: at an operator, one more operand *)
multiplication_loop(ts, c, expr) ==
    IF AtOp(ts, c, {"Slash", "Star"})
    THEN multiplication_operand(ts, c + 1, expr, Some(ts[c].v))
    ELSE Parsed(expr, c)

(* an operand of Parser::multiplication: the first one (no operator before it) is  *)
(* the expression so far, a later one is joined to it                      *)
multiplication_operand(ts, c, expr, operator) ==
    Bind(unary(ts, c),
         LAMBDA r : multiplication_loop(ts, r.cur,
                         IF operator = NoneV
                         THEN r.node
                         ELSE Binary(expr, operator.v, r.node)))

(* Parser::multiplication *)
multiplication(ts, c) == multiplication_operand(ts, c, NoneV, NoneV)

(* the while loop of Parser::addition: at an operator, one more operand *)
addition_loop(ts, c, expr) ==
    IF AtOp(ts, c, {"Minus", "Plus"})
    THEN addition_operand(ts, c + 1, expr, Some(ts[c].v))
    ELSE Parsed(expr, c)

(* an operand of Parser::addition: the first one (no operator before it) is  *)
(* the expression so far, a later one is joined to it                      *)
addition_operand(ts, c, expr, operator) ==
    Bind(multiplication(ts, c),
         LAMBDA r : addition_loop(ts, r.cur,
                         IF operator = NoneV
                         THEN r.node
                         ELSE Binary(expr, operator.v, r.node)))

(* Parser::addition *)
addition(ts, c) == addition_operand(ts, c, NoneV, NoneV)

(* the while loop of Parser::comparsion: at an operator, one more operand *)
comparsion_loop(ts, c, expr) ==
    IF AtOp(ts, c, {"GreaterThan", "GreaterThanOrEqual", "LessThan",
                              "LessThanOrEqual"})
    THEN comparsion_operand(ts, c + 1, expr, Some(ts[c].v))
    ELSE Parsed(expr, c)

(* an operand of Parser::comparsion: the first one (no operator before it) is  *)
(* the expression so far, a later one is joined to it                      *)
comparsion_operand(ts, c, expr, operator) ==
    Bind(addition(ts, c),
         LAMBDA r : comparsion_loop(ts, r.cur,
                         IF operator = NoneV
                         THEN r.node
                         ELSE Binary(expr, operator.v, r.node)))

(* Parser::comparsion *)
comparsion(ts, c) == comparsion_operand(ts, c, NoneV, NoneV)

(* the while loop of Parser::equality: at an operator, one more operand *)
equality_loop(ts, c, expr) ==
    IF AtOp(ts, c, {"Equal", "NotEqual"})
    THEN equality_operand(ts, c + 1, expr, Some(ts[c].v))
    ELSE Parsed(expr, c)

(* an operand of Parser::equality: the first one (no operator before it) is  *)
(* the expression so far, a later one is joined to it                      *)
equality_operand(ts, c, expr, operator) ==
    Bind(comparsion(ts, c),
         LAMBDA r : equality_loop(ts, r.cur,
                         IF operator = NoneV
                         THEN r.node
                         ELSE Binary(expr, operator.v, r.node)))

(* Parser::equality *)
equality(ts, c) == equality_operand(ts, c, NoneV, NoneV)

(* the while loop of Parser::and: its right operand is parsed by and *)
and_loop(ts, c, expr) ==
    IF AtOp(ts, c, {"And"})
    THEN Bind(and(ts, c + 1),
              LAMBDA r : and_loop(ts, r.cur, Logical(expr, "And", r.node)))
    ELSE Parsed(expr, c)

(* Parser::and *)
and(ts, c) ==
    Bind(equality(ts, c), LAMBDA r : and_loop(ts, r.cur, r.node))

(* the while loop of Parser::or: at an operator, one more operand *)
or_loop(ts, c, expr) ==
    IF AtOp(ts, c, {"Or"})
    THEN or_operand(ts, c + 1, expr, Some(ts[c].v))
    ELSE Parsed(expr, c)

(* an operand of Parser::or: the first one (no operator before it) is  *)
(* the expression so far, a later one is joined to it                      *)
or_operand(ts, c, expr, operator) ==
    Bind(and(ts, c),
         LAMBDA r : or_loop(ts, r.cur,
                         IF operator = NoneV
                         THEN r.node
                         ELSE Logical(expr, operator.v, r.node)))

(* Parser::or *)
or(ts, c) == or_operand(ts, c, NoneV, NoneV)

(* the rest of Parser::assignment once the left side is parsed *)
assignment_value(ts, expr) ==
    IF expr.cur > Len(ts)
    THEN Abort
    ELSE IF ts[expr.cur].tok = "Assign"
         THEN Bind(assignment(ts, expr.cur + 1),
                   LAMBDA value :
                       IF expr.node.k = "Variable"
                       THEN Parsed(Assign(expr.node.name, value.node), value.cur)
                       ELSE Abort)
         ELSE Parsed(expr.node, expr.cur)

(* Parser::assignment *)
assignment(ts, c) ==
    Bind(or(ts, c), LAMBDA expr : assignment_value(ts, expr))

(* Parser::expression *)
expression(ts, c) == assignment(ts, c)

(* Parser::expr_stmt *)
expr_stmt(ts, c) ==
    Bind(expression(ts, c),
         LAMBDA expr : Bind(consume(ts, expr.cur, "Semicolon"),
                            LAMBDA p : Parsed(ExprStmt(expr.node), p.cur)))

(* Parser::print *)
print(ts, c) ==
    Bind(expression(ts, c),
         LAMBDA value : Bind(consume(ts, value.cur, "Semicolon"),
                             LAMBDA p : Parsed(PrintStmt(value.node), p.cur)))

(* Parser::var_decl: without `=` the declaration ends after the name *)
var_decl(ts, c) ==
    IF c <= Len(ts) /\ ts[c].tok = "Identifier"
    THEN IF c + 1 > Len(ts)
         THEN Abort
         ELSE IF ts[c + 1].tok = "Assign"
              THEN Bind(expression(ts, c + 2),
                        LAMBDA initializer :
                            Bind(consume(ts, initializer.cur, "Semicolon"),
                                 LAMBDA p : Parsed(VariableStmt(ts[c], initializer.node),
                                                   p.cur)))
              ELSE Parsed(VariableStmt(ts[c], L(Nil)), c + 1)
    ELSE Abort

(* the number of times the while loop of Parser::func_decl runs from       *)
(* position c: the commas at c, c + 2, c + 4, ...                          *)
CommaCount(ts, c) ==
    CHOOSE k \in 0..Len(ts) :
        /\ \A j \in 0..(k - 1) : c + 2 * j <= Len(ts) /\ ts[c + 2 * j].tok = "Comma"
        /\ ~(c + 2 * k <= Len(ts) /\ ts[c + 2 * k].tok = "Comma")

(* the while loop of Parser::func_decl: after each comma the next token,   *)
(* whatever it is, is a parameter; the loop panics when the tokens end     *)
(* after a comma or after a parameter                                      *)
parameters_loop(ts, c, params) ==
    IF c + 2 * CommaCount(ts, c) > Len(ts)
    THEN Abort
    ELSE Parsed(params \o [j \in 1..CommaCount(ts, c) |-> ts[c + 2 * j - 1]],
                c + 2 * CommaCount(ts, c))

(* the rest of Parser::func_decl once the parameters are parsed *)
func_decl_body(ts, name, params) ==
    IF ~consume(ts, params.cur, "RightParen").ok \/ params.cur + 1 > Len(ts)
    THEN Abort
    ELSE Bind(statement(ts, params.cur + 1),
              LAMBDA body : Parsed(Function(name, Some(params.node), body.node),
                                   body.cur))

(* Parser::func_decl: the length check is made once, on the empty list,    *)
(* before the first parameter is taken                                     *)
func_decl(ts, c) ==
    IF c <= Len(ts) /\ ts[c].tok = "Identifier"
    THEN IF ~consume(ts, c + 1, "LeftParen").ok \/ c + 2 > Len(ts)
         THEN Abort
         ELSE Bind(IF ts[c + 2].tok # "RightParen"
                   THEN IF Len(<<>>) >= MaxArguments
                        THEN Abort
                        ELSE parameters_loop(ts, c + 3, <<ts[c + 2]>>)
                   ELSE Parsed(<<>>, c + 2),
                   LAMBDA params : func_decl_body(ts, ts[c], params))
    ELSE Abort

(* Parser::delaration *)
delaration(ts, c) ==
    IF c > Len(ts)
    THEN Abort
    ELSE IF ts[c].tok = "Fun"
         THEN func_decl(ts, c + 1)
         ELSE IF ts[c].tok = "Var"
              THEN var_decl(ts, c + 1)
              ELSE statement(ts, c)

(* the while loop of Parser::block *)
block_loop(ts, c, stmts) ==
    IF c <= Len(ts) /\ ts[c].tok # "RightBrace"
    THEN Bind(delaration(ts, c),
              LAMBDA d : block_loop(ts, d.cur, Append(stmts, d.node)))
    ELSE Bind(consume(ts, c, "RightBrace"), LAMBDA p : Parsed(stmts, p.cur))

(* Parser::block *)
block(ts, c) == block_loop(ts, c, <<>>)

(* the rest of Parser::while_stmt once the condition is parsed *)
while_stmt_body(ts, condition) ==
    IF ~consume(ts, condition.cur, "RightParen").ok
       \/ condition.cur + 1 > Len(ts)
    THEN Abort
    ELSE Bind(statement(ts, condition.cur + 1),
              LAMBDA body : Parsed(While(condition.node, body.node), body.cur))

(* Parser::while_stmt *)
while_stmt(ts, c) ==
    IF ~consume(ts, c, "LeftParen").ok
    THEN Abort
    ELSE Bind(expression(ts, c + 1),
              LAMBDA condition : while_stmt_body(ts, condition))

(* the else branch of Parser::if_stmt *)
if_stmt_else(ts, condition, then_branch) ==
    IF At(ts, then_branch.cur, "Else")
    THEN IF then_branch.cur + 1 > Len(ts)
         THEN Abort
         ELSE Bind(statement(ts, then_branch.cur + 1),
                   LAMBDA else_branch :
                       Parsed(If(condition.node, then_branch.node,
                                 else_branch.node),
                              else_branch.cur))
    ELSE Parsed(If(condition.node, then_branch.node, NoneV), then_branch.cur)

(* the rest of Parser::if_stmt once the condition is parsed *)
if_stmt_then(ts, condition) ==
    IF ~consume(ts, condition.cur, "RightParen").ok
       \/ condition.cur + 1 > Len(ts)
    THEN Abort
    ELSE Bind(statement(ts, condition.cur + 1),
              LAMBDA then_branch : if_stmt_else(ts, condition, then_branch))

(* Parser::if_stmt *)
if_stmt(ts, c) ==
    IF ~consume(ts, c, "LeftParen").ok
    THEN Abort
    ELSE Bind(expression(ts, c + 1), LAMBDA condition : if_stmt_then(ts, condition))

(* a faulty rewriting of the for loop: the increment runs before the body *)
for_stmt_increment_first(initializer, condition, increment, body) ==
    LET b1 == IF increment # NoneV
              THEN Block(<<ExprStmt(increment), body>>)
              ELSE body
        b2 == IF condition # NoneV THEN While(condition, b1) ELSE b1
    IN  IF initializer # NoneV THEN Block(<<initializer, b2>>) ELSE b2

(* the end of Parser::for_stmt: the loop is rewritten into blocks and a    *)
(* While; the While is made only when there is a condition                 *)
for_stmt_desugar(initializer, condition, increment, body) ==
    LET b1 == IF increment # NoneV
              THEN Block(<<body, ExprStmt(increment)>>)
              ELSE body
        b2 == IF condition # NoneV THEN While(condition, b1) ELSE b1
    IN  IF initializer # NoneV THEN Block(<<initializer, b2>>) ELSE b2

(* the rest of Parser::for_stmt once the increment is parsed *)
for_stmt_body(ts, initializer, condition, increment) ==
    IF ~consume(ts, increment.cur, "RightParen").ok
       \/ increment.cur + 1 > Len(ts)
    THEN Abort
    ELSE Bind(statement(ts, increment.cur + 1),
              LAMBDA body :
                  Parsed(for_stmt_desugar(initializer.node, condition.node,
                                          increment.node, body.node),
                         body.cur))

(* the rest of Parser::for_stmt once the condition is parsed *)
for_stmt_increment(ts, initializer, condition) ==
    IF ~consume(ts, condition.cur, "Semicolon").ok
    THEN Abort
    ELSE Bind(IF condition.cur + 1 <= Len(ts)
                 /\ ts[condition.cur + 1].tok # "RightParen"
              THEN expression(ts, condition.cur + 1)
              ELSE Parsed(NoneV, condition.cur + 1),
              LAMBDA increment : for_stmt_body(ts, initializer, condition, increment))

(* the rest of Parser::for_stmt once the initializer is parsed *)
for_stmt_condition(ts, initializer) ==
    Bind(IF initializer.cur <= Len(ts) /\ ts[initializer.cur].tok # "Semicolon"
         THEN expression(ts, initializer.cur)
         ELSE Parsed(NoneV, initializer.cur),
         LAMBDA condition : for_stmt_increment(ts, initializer, condition))

(* Parser::for_stmt *)
for_stmt(ts, c) ==
    IF ~consume(ts, c, "LeftParen").ok \/ c + 1 > Len(ts)
    THEN Abort
    ELSE Bind(IF ts[c + 1].tok = "Semicolon"
              THEN Parsed(NoneV, c + 2)
              ELSE IF ts[c + 1].tok = "Var"
                   THEN var_decl(ts, c + 2)
                   ELSE expr_stmt(ts, c + 1),
              LAMBDA initializer : for_stmt_condition(ts, initializer))

(* Parser::statement: for, if, print, while, block, else an expression     *)
(* statement                                                               *)
statement(ts, c) ==
    IF c > Len(ts)
    THEN Abort
    ELSE CASE ts[c].tok = "For" -> for_stmt(ts, c + 1)
           [] ts[c].tok = "If" -> if_stmt(ts, c + 1)
           [] ts[c].tok = "Print" -> print(ts, c + 1)
           [] ts[c].tok = "While" -> while_stmt(ts, c + 1)
           [] ts[c].tok = "LeftBrace" ->
                  Bind(block(ts, c + 1), LAMBDA b : Parsed(Block(b.node), b.cur))
           [] OTHER -> expr_stmt(ts, c)

(* the loop of Parser::parse, from position c with stmts already parsed *)
parse_loop(ts, c, stmts) ==
    IF c <= Len(ts)
    THEN Bind(delaration(ts, c),
              LAMBDA d : parse_loop(ts, d.cur, Append(stmts, d.node)))
    ELSE Parsed(stmts, c)

-----------------------------------------------------------------------------
(* Control stack                                                           *)

Top == Head(stack)
Rest == Tail(stack)
Cur == tables[symbol_table]

ExecFrame(s) == [op |-> "exec", s |-> s]
EvalFrame(e) == [op |-> "eval", e |-> e]
ExecAll(stmts) == [i \in 1..Len(stmts) |-> ExecFrame(stmts[i])]

(* Interpreter::execute followed by Stmt::accept: the statement on top is  *)
(* dispatched to its visitor only while no return is pending               *)
IsExec(k) ==
    /\ pc = "run"
    /\ stack # <<>>
    /\ Top.op = "exec"
    /\ ret = NoneV
    /\ Top.s.k = k

(* Interpreter::evaluate followed by Expr::accept *)
IsEval(k) ==
    /\ pc = "run"
    /\ stack # <<>>
    /\ Top.op = "eval"
    /\ Top.e.k = k

(* the rest of a visitor method, resumed with the value in val *)
IsCont(op) ==
    /\ pc = "run"
    /\ stack # <<>>
    /\ Top.op = op

(* a step that changes only the control stack and the value register *)
Step(l, stk, v) ==
    /\ last' = l
    /\ stack' = stk
    /\ val' = v
    /\ UNCHANGED <<input, tokens, statements, pc, tables, maps, symbol_table,
                   globals, ret, out>>

(* panic!, unwrap() of None, unimplemented!: the process aborts *)
Panic(l) ==
    /\ last' = l
    /\ pc' = "panic"
    /\ UNCHANGED <<input, tokens, statements, stack, val, tables, maps,
                   symbol_table, globals, ret, out>>

(* Interpreter::execute_block: install a new table cell holding            *)
(* `environment`, run the statements, then (block_exit) put the previous   *)
(* table back; k is what the caller does afterwards                        *)
execute_block(stmts, environment, k) ==
    /\ tables' = Append(tables, environment)
    /\ symbol_table' = Len(tables) + 1
    /\ stack' = ExecAll(stmts)
                \o <<[op |-> "block_exit", previous_env |-> symbol_table]>>
                \o k

-----------------------------------------------------------------------------
(* Statements: impl StmtVisitor for Interpreter                            *)

(* Interpreter::execute when a return is pending: the statement is skipped *)
execute ==
    /\ pc = "run"
    /\ stack # <<>>
    /\ Top.op = "exec"
    /\ ret # NoneV
    /\ Step("execute", Rest, val)

visit_expr_stmt ==
    /\ IsExec("Expr")
    /\ Step("visit_expr_stmt", <<EvalFrame(Top.s.e)>> \o Rest, val)

visit_print ==
    /\ IsExec("Print")
    /\ Step("visit_print", <<EvalFrame(Top.s.e), [op |-> "print"]>> \o Rest, val)

visit_print_write ==
    /\ IsCont("print")
    /\ IF val = NoneV
       THEN Panic("visit_print_write")
       ELSE /\ out' = Append(out, FmtObject(val))
            /\ stack' = Rest
            /\ last' = "visit_print_write"
            /\ UNCHANGED <<input, tokens, statements, pc, val, tables, maps,
                           symbol_table, globals, ret>>

visit_var_decl ==
    /\ IsExec("Variable")
    /\ IF Top.s.name.tok # "Identifier"
       THEN Panic("visit_var_decl")
       ELSE IF Top.s.initializer = L(Nil)
            THEN /\ maps' = define(maps, Cur, Top.s.name.v, Nil)
                 /\ stack' = Rest
                 /\ last' = "visit_var_decl_define"
                 /\ UNCHANGED <<input, tokens, statements, pc, val, tables,
                                symbol_table, globals, ret, out>>
            ELSE Step("visit_var_decl",
                      <<EvalFrame(Top.s.initializer),
                        [op |-> "var_decl", name |-> Top.s.name.v]>> \o Rest,
                      val)

visit_var_decl_define ==
    /\ IsCont("var_decl")
    /\ IF val = NoneV
       THEN Panic("visit_var_decl_define")
       ELSE /\ maps' = define(maps, Cur, Top.name, val)
            /\ stack' = Rest
            /\ last' = "visit_var_decl_define"
            /\ UNCHANGED <<input, tokens, statements, pc, val, tables,
                           symbol_table, globals, ret, out>>

visit_block ==
    /\ IsExec("Block")
    /\ maps' = Append(maps, << >>)
    /\ execute_block(Top.s.stmts,
                     [enclosing |-> symbol_table, values |-> Len(maps) + 1],
                     Rest)
    /\ last' = "visit_block"
    /\ UNCHANGED <<input, tokens, statements, pc, val, globals, ret, out>>

(* a faulty end of execute_block: when a return is pending the block is    *)
(* left without putting the previous table back                            *)
execute_block_exit_skipped_on_return ==
    /\ IsCont("block_exit")
    /\ symbol_table' = IF ret # NoneV THEN symbol_table ELSE Top.previous_env
    /\ stack' = Rest
    /\ last' = "execute_block_exit"
    /\ UNCHANGED <<input, tokens, statements, pc, val, tables, maps, globals,
                   ret, out>>

(* the tail of Interpreter::execute_block; the deep copy it returns is     *)
(* dropped by both callers                                                 *)
execute_block_exit ==
    /\ IsCont("block_exit")
    /\ symbol_table' = Top.previous_env
    /\ stack' = Rest
    /\ last' = "execute_block_exit"
    /\ UNCHANGED <<input, tokens, statements, pc, val, tables, maps, globals,
                   ret, out>>

visit_if ==
    /\ IsExec("If")
    /\ Step("visit_if",
            <<EvalFrame(Top.s.condition),
              [op |-> "if", then_branch |-> Top.s.then_branch,
               else_branch |-> Top.s.else_branch]>> \o Rest,
            val)

visit_if_branch ==
    /\ IsCont("if")
    /\ Step("visit_if_branch",
            IF val = Bool(TRUE)
            THEN <<ExecFrame(Top.then_branch)>> \o Rest
            ELSE IF Top.else_branch # NoneV
                 THEN <<ExecFrame(Top.else_branch)>> \o Rest
                 ELSE Rest,
            val)

visit_while ==
    /\ IsExec("While")
    /\ Step("visit_while",
            <<EvalFrame(Top.s.condition),
              [op |-> "while", condition |-> Top.s.condition,
               body |-> Top.s.body]>> \o Rest,
            val)

visit_while_test ==
    /\ IsCont("while")
    /\ Step("visit_while_test",
            IF val = Bool(TRUE)
            THEN <<ExecFrame(Top.body), EvalFrame(Top.condition), Top>> \o Rest
            ELSE Rest,
            val)

visit_function_decl ==
    /\ IsExec("Function")
    /\ IF Top.s.name.tok = "Identifier"
       THEN LET dc == deep_copy(maps, Cur)
                f == FunctionObj(Top.s, dc.table)
                m1 == define(dc.maps, dc.table, Top.s.name.v, f)
            IN  maps' = define(m1, Cur, Top.s.name.v, f)
       ELSE UNCHANGED maps
    /\ stack' = Rest
    /\ last' = "visit_function_decl"
    /\ UNCHANGED <<input, tokens, statements, pc, val, tables, symbol_table,
                   globals, ret, out>>

visit_return ==
    /\ IsExec("Return")
    /\ IF Top.s.r = NoneV
       THEN /\ ret' = Left
            /\ stack' = Rest
            /\ last' = "visit_return"
            /\ UNCHANGED <<input, tokens, statements, pc, val, tables, maps,
                           symbol_table, globals, out>>
       ELSE Step("visit_return",
                 <<EvalFrame(Top.s.r), [op |-> "return"]>> \o Rest, val)

visit_return_value ==
    /\ IsCont("return")
    /\ IF val = NoneV
       THEN Panic("visit_return_value")
       ELSE /\ ret' = Right(val)
            /\ stack' = Rest
            /\ last' = "visit_return_value"
            /\ UNCHANGED <<input, tokens, statements, pc, val, tables, maps,
                           symbol_table, globals, out>>

-----------------------------------------------------------------------------
(* Expressions: impl ExprVisitor for Interpreter                           *)

visit_literal ==
    /\ IsEval("L")
    /\ Step("visit_literal", Rest, Top.e.v)

visit_unary ==
    /\ IsEval("Unary")
    /\ Step("visit_unary",
            <<EvalFrame(Top.e.right),
              [op |-> "unary", operator |-> Top.e.operator]>> \o Rest,
            val)

(* Option::map leaves None as it is *)
visit_unary_apply ==
    /\ IsCont("unary")
    /\ IF Top.operator = "Minus"
       THEN IF val = NoneV
            THEN Step("visit_unary_apply", Rest, NoneV)
            ELSE IF val.t = "Float"
                 THEN Step("visit_unary_apply", Rest, Float(0 - val.v))
                 ELSE Panic("visit_unary_apply")
       ELSE IF Top.operator = "Not"
            THEN IF val = NoneV
                 THEN Step("visit_unary_apply", Rest, NoneV)
                 ELSE IF val.t = "Bool"
                      THEN Step("visit_unary_apply", Rest, Bool(~val.v))
                      ELSE Panic("visit_unary_apply")
            ELSE Panic("visit_unary_apply")

FloatOperators ==
    {"Minus", "Plus", "Slash", "Star", "NotEqual", "Equal",
     "GreaterThanOrEqual", "LessThanOrEqual", "GreaterThan", "LessThan",
     "And", "Or"}

(* the match on the operator for two Float operands; Slash is exact on the *)
(* inputs of the model                                                     *)
FloatOp(l, o, r) ==
    CASE o = "Minus" -> Float(l - r)
      [] o = "Plus" -> Float(l + r)
      [] o = "Slash" -> Float(l \div r)
      [] o = "Star" -> Float(l * r)
      [] o = "NotEqual" -> Bool(l # r)
      [] o = "Equal" -> Bool(l = r)
      [] o = "GreaterThanOrEqual" -> Bool(l >= r)
      [] o = "LessThanOrEqual" -> Bool(l <= r)
      [] o = "GreaterThan" -> Bool(l > r)
      [] o = "LessThan" -> Bool(l < r)
      [] o = "And" -> Bool(l > 0 /\ r > 0)
      [] o = "Or" -> Bool(l > 0 \/ r > 0)

(* visit_binary first tries the operands as strings, and when either is    *)
(* not a string it evaluates the left operand again and tries them as      *)
(* floats                                                                  *)
visit_binary ==
    /\ IsEval("Binary")
    /\ Step("visit_binary",
            <<EvalFrame(Top.e.left),
              [op |-> "binary_string_left", e |-> Top.e]>> \o Rest,
            val)

visit_binary_string_left ==
    /\ IsCont("binary_string_left")
    /\ IF val.t = "String"
       THEN Step("visit_binary_string_left",
                 <<EvalFrame(Top.e.right),
                   [op |-> "binary_string_right", e |-> Top.e,
                    left |-> val.v]>> \o Rest,
                 val)
       ELSE Step("visit_binary_string_left",
                 <<EvalFrame(Top.e.left),
                   [op |-> "binary_float_left", e |-> Top.e]>> \o Rest,
                 val)

(* visit_binary with a number on the right of a string turned into its    *)
(* text                                                                    *)
visit_binary_string_coerces ==
    /\ IsCont("binary_string_right")
    /\ IF val.t \in {"String", "Float"}
       THEN IF Top.e.operator = "Plus"
            THEN Step("visit_binary_string_right", Rest,
                      String(Top.left \o (IF val.t = "Float"
                                          THEN FmtFloat(val.v) ELSE val.v)))
            ELSE Panic("visit_binary_string_right")
       ELSE Step("visit_binary_string_right",
                 <<EvalFrame(Top.e.left),
                   [op |-> "binary_float_left", e |-> Top.e]>> \o Rest,
                 val)

visit_binary_string_right ==
    /\ IsCont("binary_string_right")
    /\ IF val.t = "String"
       THEN IF Top.e.operator = "Plus"
            THEN Step("visit_binary_string_right", Rest,
                      String(Top.left \o val.v))
            ELSE Panic("visit_binary_string_right")
       ELSE Step("visit_binary_string_right",
                 <<EvalFrame(Top.e.left),
                   [op |-> "binary_float_left", e |-> Top.e]>> \o Rest,
                 val)

visit_binary_float_left ==
    /\ IsCont("binary_float_left")
    /\ IF val.t = "Float"
       THEN Step("visit_binary_float_left",
                 <<EvalFrame(Top.e.right),
                   [op |-> "binary_float_right", e |-> Top.e,
                    left |-> val.v]>> \o Rest,
                 val)
       ELSE Panic("visit_binary_float_left")

visit_binary_float_right ==
    /\ IsCont("binary_float_right")
    /\ IF val.t = "Float" /\ Top.e.operator \in FloatOperators
       THEN Step("visit_binary_float_right", Rest,
                 FloatOp(Top.left, Top.e.operator, val.v))
       ELSE Panic("visit_binary_float_right")

visit_logical ==
    /\ IsEval("Logical")
    /\ Step("visit_logical",
            <<EvalFrame(Top.e.left),
              [op |-> "logical_left", e |-> Top.e]>> \o Rest,
            val)

(* a visit_logical that short-circuits: a false left operand of `and` and *)
(* a true left operand of `or` are the result, the right operand is not    *)
(* evaluated                                                               *)
visit_logical_left_short_circuits ==
    /\ IsCont("logical_left")
    /\ IF val.t = "Bool"
       THEN IF val.v = (Top.e.operator = "Or")
            THEN Step("visit_logical_left", Rest, val)
            ELSE Step("visit_logical_left",
                      <<EvalFrame(Top.e.right),
                        [op |-> "logical_right", e |-> Top.e,
                         left |-> val.v]>> \o Rest,
                      val)
       ELSE Panic("visit_logical_left")

visit_logical_left ==
    /\ IsCont("logical_left")
    /\ IF val.t = "Bool"
       THEN Step("visit_logical_left",
                 <<EvalFrame(Top.e.right),
                   [op |-> "logical_right", e |-> Top.e,
                    left |-> val.v]>> \o Rest,
                 val)
       ELSE Panic("visit_logical_left")

visit_logical_right ==
    /\ IsCont("logical_right")
    /\ IF val.t = "Bool" /\ Top.e.operator \in {"And", "Or"}
       THEN Step("visit_logical_right", Rest,
                 IF Top.e.operator = "And"
                 THEN Bool(Top.left /\ val.v)
                 ELSE Bool(Top.left \/ val.v))
       ELSE Panic("visit_logical_right")

(* unimplemented!() *)
visit_grouping ==
    /\ IsEval("Grouping")
    /\ Panic("visit_grouping")

visit_assign ==
    /\ IsEval("Assign")
    /\ IF Top.e.name.tok = "Identifier"
       THEN Step("visit_assign",
                 <<EvalFrame(Top.e.value),
                   [op |-> "assign", name |-> Top.e.name.v]>> \o Rest,
                 val)
       ELSE Panic("visit_assign")

visit_assign_store ==
    /\ IsCont("assign")
    /\ IF val = NoneV
       THEN Panic("visit_assign_store")
       ELSE LET r == assign(maps, tables, Cur, Top.name, val)
            IN  IF r.ok
                THEN /\ maps' = r.maps
                     /\ stack' = Rest
                     /\ last' = "visit_assign_store"
                     /\ UNCHANGED <<input, tokens, statements, pc, val,
                                    tables, symbol_table, globals, ret,
                                    out>>
                ELSE Panic("visit_assign_store")

visit_variable ==
    /\ IsEval("Variable")
    /\ IF Top.e.name.tok = "Identifier"
       THEN LET r == get(maps, tables, Cur, Top.e.name.v)
            IN  IF r.ok
                THEN Step("visit_variable", Rest, r.v)
                ELSE Panic("visit_variable")
       ELSE Panic("visit_variable")

(* visit_call: the callee, then the arguments left to right, then the      *)
(* arity check, then unwrap() of every argument, then Callable::call       *)
visit_call ==
    /\ IsEval("Call")
    /\ Step("visit_call",
            <<EvalFrame(Top.e.callee),
              [op |-> "call_callee", arguments |-> Top.e.arguments]>> \o Rest,
            val)

visit_call_callee ==
    /\ IsCont("call_callee")
    /\ IF val.t = "C"
       THEN IF Top.arguments = <<>>
            THEN Step("visit_call_callee",
                      <<[op |-> "call_check", callee |-> val, args |-> <<>>]>>
                      \o Rest,
                      val)
            ELSE Step("visit_call_callee",
                      <<EvalFrame(Head(Top.arguments)),
                        [op |-> "call_argument", callee |-> val,
                         todo |-> Tail(Top.arguments), args |-> <<>>]>> \o Rest,
                      val)
       ELSE Panic("visit_call_callee")

visit_call_argument ==
    /\ IsCont("call_argument")
    /\ LET args == Append(Top.args, val)
       IN  IF Top.todo = <<>>
           THEN Step("visit_call_argument",
                     <<[op |-> "call_check", callee |-> Top.callee,
                        args |-> args]>> \o Rest,
                     val)
           ELSE Step("visit_call_argument",
                     <<EvalFrame(Head(Top.todo)),
                       [op |-> "call_argument", callee |-> Top.callee,
                        todo |-> Tail(Top.todo), args |-> args]>> \o Rest,
                     val)

(* visit_call without the comparison of args.len() with callee.arity() *)
visit_call_unchecked ==
    /\ IsCont("call_check")
    /\ IF \E i \in 1..Len(Top.args) : Top.args[i] = NoneV
       THEN Panic("visit_call_check")
       ELSE Step("visit_call_check",
                 <<[op |-> "call", callee |-> Top.callee,
                    arguments |-> Top.args]>> \o Rest,
                 val)

visit_call_check ==
    /\ IsCont("call_check")
    /\ IF Len(Top.args) # arity(Top.callee)
       THEN Panic("visit_call_check")
       ELSE IF \E i \in 1..Len(Top.args) : Top.args[i] = NoneV
            THEN Panic("visit_call_check")
            ELSE Step("visit_call_check",
                      <<[op |-> "call", callee |-> Top.callee,
                         arguments |-> Top.args]>> \o Rest,
                      val)

-----------------------------------------------------------------------------
(* Callables: interpreter/callable.rs                                      *)

(* seconds since the epoch that SystemTime::now can give *)
ClockTimes == {1000, 1001}

(* Clock::call *)
Clock_call ==
    /\ IsCont("call")
    /\ Top.callee.kind = "Clock"
    /\ \E now \in ClockTimes : Step("Clock_call", Rest, Float(now))

(* the loop over the parameters in Function::call: every parameter that is *)
(* an identifier is defined as the argument at its position                *)
RECURSIVE BindParameters(_, _, _, _, _)
BindParameters(ms, env, parameters, arguments, i) ==
    IF i > Len(parameters)
    THEN ms
    ELSE BindParameters(
             IF parameters[i].tok = "Identifier"
             THEN define(ms, env, parameters[i].v, arguments[i])
             ELSE ms,
             env, parameters, arguments, i + 1)

(* Function::call: the environment of the call is a copy of the bindings   *)
(* of the globals with no enclosing table, plus the parameters (unwrap()   *)
(* of an argument that is not there panics); the body is run by            *)
(* execute_block and the call returns None                                 *)
Function_call ==
    /\ IsCont("call")
    /\ Top.callee.kind = "Function"
    /\ LET decl == Top.callee.declaration
           global_values == Append(maps, maps[tables[globals].values])
           env == [enclosing |-> 0, values |-> Len(maps) + 1]
       IN  IF /\ decl.parameters # NoneV
              /\ \E i \in 1..Len(decl.parameters.v) :
                     /\ decl.parameters.v[i].tok = "Identifier"
                     /\ i > Len(Top.arguments)
           THEN Panic("Function_call")
           ELSE
           IF decl.body.k = "Block"
           THEN /\ maps' = IF decl.parameters # NoneV
                           THEN BindParameters(global_values, env,
                                               decl.parameters.v,
                                               Top.arguments, 1)
                           ELSE global_values
                /\ execute_block(decl.body.stmts, env,
                                 <<[op |-> "call_return"]>> \o Rest)
                /\ last' = "Function_call"
                /\ UNCHANGED <<input, tokens, statements, pc, val, globals,
                               ret, out>>
           ELSE Panic("Function_call")

(* `return None` after execute_block in Function::call *)
Function_call_return ==
    /\ IsCont("call_return")
    /\ Step("Function_call_return", Rest, NoneV)

-----------------------------------------------------------------------------
(* Inputs: syntax trees given to Interpreter::interpret.  The parser has   *)
(* no rule that makes a Return node, so the programs with return           *)
(* statements are given as trees.                                          *)

(* largest argument of fibonacci among the inputs *)
MaxFibArg == 3

(* fun fibonacci(n) { if (n <= 1) return n;                                *)
(*                    return fibonacci(n - 1) + fibonacci(n - 2); }        *)
(* print fibonacci(arg);                                                   *)
ProgFib(arg) ==
    << Function(Identifier("fibonacci"), Some(<<Identifier("n")>>),
                Block(<<If(Binary(Var("n"), "LessThanOrEqual", Num(1)),
                           Return(Var("n")), NoneV),
                        Return(Binary(
                            Call(Var("fibonacci"),
                                 <<Binary(Var("n"), "Minus", Num(1))>>),
                            "Plus",
                            Call(Var("fibonacci"),
                                 <<Binary(Var("n"), "Minus", Num(2))>>)))>>)),
       PrintStmt(Call(Var("fibonacci"), <<Num(arg)>>)) >>

Prog ==
    (* fun f() { print 1; return 2; print 3; }  print f(); *)
    [ EarlyReturn |->
        << Function(Identifier("f"), Some(<<>>),
                    Block(<<PrintStmt(Num(1)), Return(Num(2)), PrintStmt(Num(3))>>)),
           PrintStmt(Call(Var("f"), <<>>)) >>,
    (* fun f() { { if (true) { print 1; return 2; } print 3; } print 4; }  f(); *)
      NestedReturn |->
        << Function(Identifier("f"), Some(<<>>),
                    Block(<<Block(<<If(L(Bool(TRUE)),
                                       Block(<<PrintStmt(Num(1)), Return(Num(2))>>),
                                       NoneV),
                                    PrintStmt(Num(3))>>),
                            PrintStmt(Num(4))>>)),
           ExprStmt(Call(Var("f"), <<>>)) >>,
    (* fun f() { return 1; }  f();  print 2; *)
      ReturnThenPrint |->
        << Function(Identifier("f"), Some(<<>>), Block(<<Return(Num(1))>>)),
           ExprStmt(Call(Var("f"), <<>>)),
           PrintStmt(Num(2)) >>,
    (* fun f() { while (true) { return 1; } }  f(); *)
      WhileReturn |->
        << Function(Identifier("f"), Some(<<>>),
                    Block(<<While(L(Bool(TRUE)), Block(<<Return(Num(1))>>))>>)),
           ExprStmt(Call(Var("f"), <<>>)) >>,
    (* fun bob(a, b, c) { var d = 1; return d; }  print bob(1, 2, 3); *)
      FunctionReturn |->
        << Function(Identifier("bob"), Some(<<Identifier("a"), Identifier("b"), Identifier("c")>>),
                    Block(<<VariableStmt(Identifier("d"), Num(1)), Return(Var("d"))>>)),
           PrintStmt(Call(Var("bob"), <<Num(1), Num(2), Num(3)>>)) >>,
    (* fun f() { return; }  print f(); *)
      BareReturn |->
        << Function(Identifier("f"), Some(<<>>), Block(<<Return(NoneV)>>)),
           PrintStmt(Call(Var("f"), <<>>)) >>,
    (* fun f() { }  var x = f();  print x; *)
      NoReturn |->
        << Function(Identifier("f"), Some(<<>>), Block(<<>>)),
           VariableStmt(Identifier("x"), Call(Var("f"), <<>>)),
           PrintStmt(Var("x")) >>,
    (* fun make() { var x = 1; fun inner() { return x; } return inner; }       *)
    (* var g = make();  print g();                                             *)
      Closure |->
        << Function(Identifier("make"), Some(<<>>),
                    Block(<<VariableStmt(Identifier("x"), Num(1)),
                            Function(Identifier("inner"), Some(<<>>),
                                     Block(<<Return(Var("x"))>>)),
                            Return(Var("inner"))>>)),
           VariableStmt(Identifier("g"), Call(Var("make"), <<>>)),
           PrintStmt(Call(Var("g"), <<>>)) >>,
    (* var b = false;  print false and (b = true);  print b;                   *)
    (* print true or (b = false);  print b;                                    *)
      LogicalAssign |->
        << VariableStmt(Identifier("b"), L(Bool(FALSE))),
           PrintStmt(Logical(L(Bool(FALSE)), "And",
                             Assign(Identifier("b"), L(Bool(TRUE))))),
           PrintStmt(Var("b")),
           PrintStmt(Logical(L(Bool(TRUE)), "Or",
                             Assign(Identifier("b"), L(Bool(FALSE))))),
           PrintStmt(Var("b")) >>,
    (* var a = 0;  print (a = a + 1) + 1;  print a; *)
      BinaryAssignLeft |->
        << VariableStmt(Identifier("a"), Num(0)),
           PrintStmt(Binary(Assign(Identifier("a"),
                                   Binary(Var("a"), "Plus", Num(1))),
                            "Plus", Num(1))),
           PrintStmt(Var("a")) >> ]

-----------------------------------------------------------------------------
(* Inputs: token sequences given to Parser::new                            *)

Src ==
    (* print 5; *)
    [ PrintFloat |->
        << Tk("Print"), FloatTk(5), Tk("Semicolon") >>,
    (* var x = 5; print x; *)
      Var |->
        << Tk("Var"), Identifier("x"), Tk("Assign"), FloatTk(5), Tk("Semicolon"),
           Tk("Print"), Identifier("x"), Tk("Semicolon") >>,
    (* {var x = 5;} {var y = 10;} {print y;} *)
      Block |->
        << Tk("LeftBrace"), Tk("Var"), Identifier("x"), Tk("Assign"), FloatTk(5),
           Tk("Semicolon"), Tk("RightBrace"), Tk("LeftBrace"), Tk("Var"),
           Identifier("y"), Tk("Assign"), FloatTk(10), Tk("Semicolon"),
           Tk("RightBrace"), Tk("LeftBrace"), Tk("Print"), Identifier("y"),
           Tk("Semicolon"), Tk("RightBrace") >>,
    (* if (x < 5) { print x; } else { print 5; } *)
      If |->
        << Tk("If"), Tk("LeftParen"), Identifier("x"), O("LessThan"), FloatTk(5),
           Tk("RightParen"), Tk("LeftBrace"), Tk("Print"), Identifier("x"),
           Tk("Semicolon"), Tk("RightBrace"), Tk("Else"), Tk("LeftBrace"),
           Tk("Print"), FloatTk(5), Tk("Semicolon"), Tk("RightBrace") >>,
    (* a and b or c; *)
      Logical |->
        << Identifier("a"), O("And"), Identifier("b"), O("Or"), Identifier("c"), Tk("Semicolon") >>,
    (* var a = 5; print a; a = a + 1; print a + a; *)
      Assign |->
        << Tk("Var"), Identifier("a"), Tk("Assign"), FloatTk(5), Tk("Semicolon"),
           Tk("Print"), Identifier("a"), Tk("Semicolon"), Identifier("a"), Tk("Assign"),
           Identifier("a"), O("Plus"), FloatTk(1), Tk("Semicolon"), Tk("Print"),
           Identifier("a"), O("Plus"), Identifier("a"), Tk("Semicolon") >>,
    (* for (var i = 0; i < 3; i = i + 1) { print i; } *)
      For |->
        << Tk("For"), Tk("LeftParen"), Tk("Var"), Identifier("i"), Tk("Assign"),
           FloatTk(0), Tk("Semicolon"), Identifier("i"), O("LessThan"), FloatTk(3),
           Tk("Semicolon"), Identifier("i"), Tk("Assign"), Identifier("i"), O("Plus"),
           FloatTk(1), Tk("RightParen"), Tk("LeftBrace"), Tk("Print"), Identifier("i"),
           Tk("Semicolon"), Tk("RightBrace") >>,
    (* print clock(); print clock; *)
      Clock |->
        << Tk("Print"), Identifier("clock"), Tk("LeftParen"), Tk("RightParen"),
           Tk("Semicolon"), Tk("Print"), Identifier("clock"), Tk("Semicolon") >>,
    (* fun bob(a, b, c) { var d = 1; print a + b + c + d; } bob(1, 2, 3); print bob; *)
      Function |->
        << Tk("Fun"), Identifier("bob"), Tk("LeftParen"), Identifier("a"), Tk("Comma"), Identifier("b"),
           Tk("Comma"), Identifier("c"), Tk("RightParen"), Tk("LeftBrace"), Tk("Var"),
           Identifier("d"), Tk("Assign"), FloatTk(1), Tk("Semicolon"), Tk("Print"),
           Identifier("a"), O("Plus"), Identifier("b"), O("Plus"), Identifier("c"), O("Plus"), Identifier("d"),
           Tk("Semicolon"), Tk("RightBrace"), Identifier("bob"), Tk("LeftParen"),
           FloatTk(1), Tk("Comma"), FloatTk(2), Tk("Comma"), FloatTk(3),
           Tk("RightParen"), Tk("Semicolon"), Tk("Print"), Identifier("bob"),
           Tk("Semicolon") >>,
    (* fun count(n) { if (n > 1) count(n - 1); print n; } count(2); *)
      Count |->
        << Tk("Fun"), Identifier("count"), Tk("LeftParen"), Identifier("n"), Tk("RightParen"),
           Tk("LeftBrace"), Tk("If"), Tk("LeftParen"), Identifier("n"),
           O("GreaterThan"), FloatTk(1), Tk("RightParen"), Identifier("count"),
           Tk("LeftParen"), Identifier("n"), O("Minus"), FloatTk(1), Tk("RightParen"),
           Tk("Semicolon"), Tk("Print"), Identifier("n"), Tk("Semicolon"),
           Tk("RightBrace"), Identifier("count"), Tk("LeftParen"), FloatTk(2),
           Tk("RightParen"), Tk("Semicolon") >>,
    (* fun f() { return 1; } *)
      Return |->
        << Tk("Fun"), Identifier("f"), Tk("LeftParen"), Tk("RightParen"),
           Tk("LeftBrace"), Tk("Return"), FloatTk(1), Tk("Semicolon"),
           Tk("RightBrace") >>,
    (* fun f() { return; } *)
      ReturnBare |->
        << Tk("Fun"), Identifier("f"), Tk("LeftParen"), Tk("RightParen"),
           Tk("LeftBrace"), Tk("Return"), Tk("Semicolon"), Tk("RightBrace") >>,
    (* print (1); *)
      Grouping |->
        << Tk("Print"), Tk("LeftParen"), FloatTk(1), Tk("RightParen"),
           Tk("Semicolon") >>,
    (* var a = "global a"; var b = "global b"; var c = "global c"; *)
    (* { var a = "outer a"; var b = "outer b"; *)
    (* { var a = "inner a"; print a; print b; print c; } *)
    (* print a; print b; print c; } *)
    (* print a; print b; print c; *)
      Blocks |->
        << Tk("Var"), Identifier("a"), Tk("Assign"), StringTk("global a"),
           Tk("Semicolon"), Tk("Var"), Identifier("b"), Tk("Assign"),
           StringTk("global b"), Tk("Semicolon"), Tk("Var"), Identifier("c"),
           Tk("Assign"), StringTk("global c"), Tk("Semicolon"), Tk("LeftBrace"),
           Tk("Var"), Identifier("a"), Tk("Assign"), StringTk("outer a"),
           Tk("Semicolon"), Tk("Var"), Identifier("b"), Tk("Assign"),
           StringTk("outer b"), Tk("Semicolon"), Tk("LeftBrace"), Tk("Var"),
           Identifier("a"), Tk("Assign"), StringTk("inner a"), Tk("Semicolon"),
           Tk("Print"), Identifier("a"), Tk("Semicolon"), Tk("Print"), Identifier("b"),
           Tk("Semicolon"), Tk("Print"), Identifier("c"), Tk("Semicolon"),
           Tk("RightBrace"), Tk("Print"), Identifier("a"), Tk("Semicolon"), Tk("Print"),
           Identifier("b"), Tk("Semicolon"), Tk("Print"), Identifier("c"), Tk("Semicolon"),
           Tk("RightBrace"), Tk("Print"), Identifier("a"), Tk("Semicolon"), Tk("Print"),
           Identifier("b"), Tk("Semicolon"), Tk("Print"), Identifier("c"), Tk("Semicolon") >>,
    (* var a = 5; var b = 6; *)
    (* if (a < b) { print "hello"; } else { print "world"; } *)
    (* if (a <= b) { print "second"; } *)
    (* print a; if (a < 10) { print a; a = 11; } print a; *)
      InterpretIf |->
        << Tk("Var"), Identifier("a"), Tk("Assign"), FloatTk(5), Tk("Semicolon"),
           Tk("Var"), Identifier("b"), Tk("Assign"), FloatTk(6), Tk("Semicolon"),
           Tk("If"), Tk("LeftParen"), Identifier("a"), O("LessThan"), Identifier("b"),
           Tk("RightParen"), Tk("LeftBrace"), Tk("Print"), StringTk("hello"),
           Tk("Semicolon"), Tk("RightBrace"), Tk("Else"), Tk("LeftBrace"),
           Tk("Print"), StringTk("world"), Tk("Semicolon"), Tk("RightBrace"),
           Tk("If"), Tk("LeftParen"), Identifier("a"), O("LessThanOrEqual"), Identifier("b"),
           Tk("RightParen"), Tk("LeftBrace"), Tk("Print"), StringTk("second"),
           Tk("Semicolon"), Tk("RightBrace"), Tk("Print"), Identifier("a"),
           Tk("Semicolon"), Tk("If"), Tk("LeftParen"), Identifier("a"), O("LessThan"),
           FloatTk(10), Tk("RightParen"), Tk("LeftBrace"), Tk("Print"), Identifier("a"),
           Tk("Semicolon"), Identifier("a"), Tk("Assign"), FloatTk(11), Tk("Semicolon"),
           Tk("RightBrace"), Tk("Print"), Identifier("a"), Tk("Semicolon") >>,
    (* var a = 5; var b = 6; print a < b or false; print a < b and false; *)
      InterpretLogical |->
        << Tk("Var"), Identifier("a"), Tk("Assign"), FloatTk(5), Tk("Semicolon"),
           Tk("Var"), Identifier("b"), Tk("Assign"), FloatTk(6), Tk("Semicolon"),
           Tk("Print"), Identifier("a"), O("LessThan"), Identifier("b"), O("Or"), BoolTk(FALSE),
           Tk("Semicolon"), Tk("Print"), Identifier("a"), O("LessThan"), Identifier("b"),
           O("And"), BoolTk(FALSE), Tk("Semicolon") >>,
    (* var a = 1; while (a < 3) { print a; a = a + 1; } print a; *)
      While |->
        << Tk("Var"), Identifier("a"), Tk("Assign"), FloatTk(1), Tk("Semicolon"),
           Tk("While"), Tk("LeftParen"), Identifier("a"), O("LessThan"), FloatTk(3),
           Tk("RightParen"), Tk("LeftBrace"), Tk("Print"), Identifier("a"),
           Tk("Semicolon"), Identifier("a"), Tk("Assign"), Identifier("a"), O("Plus"),
           FloatTk(1), Tk("Semicolon"), Tk("RightBrace"), Tk("Print"), Identifier("a"),
           Tk("Semicolon") >>,
    (* print -1; print !true; print "x" + "y"; print 6 / 2 * 3 - 1 == 8; print 1 != 2; print 2 >= 1; print 2 > 1; *)
      Unary |->
        << Tk("Print"), O("Minus"), FloatTk(1), Tk("Semicolon"), Tk("Print"),
           O("Not"), BoolTk(TRUE), Tk("Semicolon"), Tk("Print"), StringTk("x"),
           O("Plus"), StringTk("y"), Tk("Semicolon"), Tk("Print"), FloatTk(6),
           O("Slash"), FloatTk(2), O("Star"), FloatTk(3), O("Minus"),
           FloatTk(1), O("Equal"), FloatTk(8), Tk("Semicolon"), Tk("Print"),
           FloatTk(1), O("NotEqual"), FloatTk(2), Tk("Semicolon"), Tk("Print"),
           FloatTk(2), O("GreaterThanOrEqual"), FloatTk(1), Tk("Semicolon"),
           Tk("Print"), FloatTk(2), O("GreaterThan"), FloatTk(1),
           Tk("Semicolon") >>,
    (* var a = 1; *)
    (* { var b = 2; *)
    (* { a = 3; b = 4; var a = 5; a = 6; print a; } *)
    (* print a; print b; } *)
    (* print a; *)
      AssignNested |->
        << Tk("Var"), Identifier("a"), Tk("Assign"), FloatTk(1), Tk("Semicolon"),
           Tk("LeftBrace"), Tk("Var"), Identifier("b"), Tk("Assign"), FloatTk(2),
           Tk("Semicolon"), Tk("LeftBrace"), Identifier("a"), Tk("Assign"), FloatTk(3),
           Tk("Semicolon"), Identifier("b"), Tk("Assign"), FloatTk(4), Tk("Semicolon"),
           Tk("Var"), Identifier("a"), Tk("Assign"), FloatTk(5), Tk("Semicolon"),
           Identifier("a"), Tk("Assign"), FloatTk(6), Tk("Semicolon"), Tk("Print"),
           Identifier("a"), Tk("Semicolon"), Tk("RightBrace"), Tk("Print"), Identifier("a"),
           Tk("Semicolon"), Tk("Print"), Identifier("b"), Tk("Semicolon"),
           Tk("RightBrace"), Tk("Print"), Identifier("a"), Tk("Semicolon") >>,
    (* var a = 1; { c = 2; } print a; *)
      AssignUndefined |->
        << Tk("Var"), Identifier("a"), Tk("Assign"), FloatTk(1), Tk("Semicolon"),
           Tk("LeftBrace"), Identifier("c"), Tk("Assign"), FloatTk(2), Tk("Semicolon"),
           Tk("RightBrace"), Tk("Print"), Identifier("a"), Tk("Semicolon") >>,
    (* var a = 1; fun f(b) { b = 2; a = 3; print a + b; } f(1); print a; *)
      AssignInFunction |->
        << Tk("Var"), Identifier("a"), Tk("Assign"), FloatTk(1), Tk("Semicolon"),
           Tk("Fun"), Identifier("f"), Tk("LeftParen"), Identifier("b"), Tk("RightParen"),
           Tk("LeftBrace"), Identifier("b"), Tk("Assign"), FloatTk(2), Tk("Semicolon"),
           Identifier("a"), Tk("Assign"), FloatTk(3), Tk("Semicolon"), Tk("Print"),
           Identifier("a"), O("Plus"), Identifier("b"), Tk("Semicolon"), Tk("RightBrace"),
           Identifier("f"), Tk("LeftParen"), FloatTk(1), Tk("RightParen"),
           Tk("Semicolon"), Tk("Print"), Identifier("a"), Tk("Semicolon") >>,
    (* var a = 1; fun f() { var a = 2; { var a = 3; print a; } print a; } f(); print a; *)
      ShadowInFunction |->
        << Tk("Var"), Identifier("a"), Tk("Assign"), FloatTk(1), Tk("Semicolon"),
           Tk("Fun"), Identifier("f"), Tk("LeftParen"), Tk("RightParen"),
           Tk("LeftBrace"), Tk("Var"), Identifier("a"), Tk("Assign"), FloatTk(2),
           Tk("Semicolon"), Tk("LeftBrace"), Tk("Var"), Identifier("a"), Tk("Assign"),
           FloatTk(3), Tk("Semicolon"), Tk("Print"), Identifier("a"), Tk("Semicolon"),
           Tk("RightBrace"), Tk("Print"), Identifier("a"), Tk("Semicolon"),
           Tk("RightBrace"), Identifier("f"), Tk("LeftParen"), Tk("RightParen"),
           Tk("Semicolon"), Tk("Print"), Identifier("a"), Tk("Semicolon") >>,
    (* var x = nil; print x; var y; *)
      VarNil |->
        << Tk("Var"), Identifier("x"), Tk("Assign"), Tk("Nil"), Tk("Semicolon"),
           Tk("Print"), Identifier("x"), Tk("Semicolon"), Tk("Var"), Identifier("y"),
           Tk("Semicolon") >>,
    (* var x = nil; print x; print true; print "s"; print clock; *)
      PrintNil |->
        << Tk("Var"), Identifier("x"), Tk("Assign"), Tk("Nil"), Tk("Semicolon"),
           Tk("Print"), Identifier("x"), Tk("Semicolon"), Tk("Print"),
           BoolTk(TRUE), Tk("Semicolon"), Tk("Print"), StringTk("s"),
           Tk("Semicolon"), Tk("Print"), Identifier("clock"),
           Tk("Semicolon") >>,
    (* print "a" + 1; *)
      StringPlusNumber |->
        << Tk("Print"), StringTk("a"), O("Plus"), FloatTk(1), Tk("Semicolon") >>,
    (* print 1 + "a"; *)
      NumberPlusString |->
        << Tk("Print"), FloatTk(1), O("Plus"), StringTk("a"), Tk("Semicolon") >>,
    (* print "a" + "b"; print 1 + 2; print "a" - "b"; *)
      StringMinusString |->
        << Tk("Print"), StringTk("a"), O("Plus"), StringTk("b"), Tk("Semicolon"),
           Tk("Print"), FloatTk(1), O("Plus"), FloatTk(2), Tk("Semicolon"),
           Tk("Print"), StringTk("a"), O("Minus"), StringTk("b"),
           Tk("Semicolon") >>,
    (* print 1 < 2; print true == false; *)
      BoolEqualBool |->
        << Tk("Print"), FloatTk(1), O("LessThan"), FloatTk(2), Tk("Semicolon"),
           Tk("Print"), BoolTk(TRUE), O("Equal"), BoolTk(FALSE),
           Tk("Semicolon") >>,
    (* var a = 1; a(); *)
      NotCallable |->
        << Tk("Var"), Identifier("a"), Tk("Assign"), FloatTk(1), Tk("Semicolon"),
           Identifier("a"), Tk("LeftParen"), Tk("RightParen"), Tk("Semicolon") >>,
    (* fun f(a) { print a; } f(); *)
      Arity |->
        << Tk("Fun"), Identifier("f"), Tk("LeftParen"), Identifier("a"), Tk("RightParen"),
           Tk("LeftBrace"), Tk("Print"), Identifier("a"), Tk("Semicolon"),
           Tk("RightBrace"), Identifier("f"), Tk("LeftParen"), Tk("RightParen"),
           Tk("Semicolon") >>,
    (* fun f(a) { print a; } f(1, 2); *)
      ArityMore |->
        << Tk("Fun"), Identifier("f"), Tk("LeftParen"), Identifier("a"),
           Tk("RightParen"), Tk("LeftBrace"), Tk("Print"), Identifier("a"),
           Tk("Semicolon"), Tk("RightBrace"), Identifier("f"), Tk("LeftParen"),
           FloatTk(1), Tk("Comma"), FloatTk(2), Tk("RightParen"),
           Tk("Semicolon") >>,
    (* print 1; clock(2); *)
      ArityClock |->
        << Tk("Print"), FloatTk(1), Tk("Semicolon"), Identifier("clock"),
           Tk("LeftParen"), FloatTk(2), Tk("RightParen"), Tk("Semicolon") >>,
    (* var a = 1; fun f() { a = 2; } f(); print a; *)
      ClosureAssign |->
        << Tk("Var"), Identifier("a"), Tk("Assign"), FloatTk(1), Tk("Semicolon"),
           Tk("Fun"), Identifier("f"), Tk("LeftParen"), Tk("RightParen"),
           Tk("LeftBrace"), Identifier("a"), Tk("Assign"), FloatTk(2), Tk("Semicolon"),
           Tk("RightBrace"), Identifier("f"), Tk("LeftParen"), Tk("RightParen"),
           Tk("Semicolon"), Tk("Print"), Identifier("a"), Tk("Semicolon") >>,
    (* var a = 1; fun f() { print a; } a = 2; f(); *)
      ClosureRead |->
        << Tk("Var"), Identifier("a"), Tk("Assign"), FloatTk(1), Tk("Semicolon"),
           Tk("Fun"), Identifier("f"), Tk("LeftParen"), Tk("RightParen"),
           Tk("LeftBrace"), Tk("Print"), Identifier("a"), Tk("Semicolon"),
           Tk("RightBrace"), Identifier("a"), Tk("Assign"), FloatTk(2), Tk("Semicolon"),
           Identifier("f"), Tk("LeftParen"), Tk("RightParen"), Tk("Semicolon") >>,
    (* { var a = 1; fun f() { print a; } a = 2; f(); } *)
      ClosureReadLocal |->
        << Tk("LeftBrace"), Tk("Var"), Identifier("a"), Tk("Assign"), FloatTk(1),
           Tk("Semicolon"), Tk("Fun"), Identifier("f"), Tk("LeftParen"),
           Tk("RightParen"), Tk("LeftBrace"), Tk("Print"), Identifier("a"),
           Tk("Semicolon"), Tk("RightBrace"), Identifier("a"), Tk("Assign"), FloatTk(2),
           Tk("Semicolon"), Identifier("f"), Tk("LeftParen"), Tk("RightParen"),
           Tk("Semicolon"), Tk("RightBrace") >>,
    (* if (false) print 1; else print 2; if (nil) print 3; *)
      IfElse |->
        << Tk("If"), Tk("LeftParen"), BoolTk(FALSE), Tk("RightParen"),
           Tk("Print"), FloatTk(1), Tk("Semicolon"), Tk("Else"), Tk("Print"),
           FloatTk(2), Tk("Semicolon"), Tk("If"), Tk("LeftParen"), Tk("Nil"),
           Tk("RightParen"), Tk("Print"), FloatTk(3), Tk("Semicolon") >>,
    (* { fun count(n) { if (n > 1) count(n - 1); print n; } count(2); } *)
      CountInBlock |->
        << Tk("LeftBrace"), Tk("Fun"), Identifier("count"), Tk("LeftParen"),
           Identifier("n"), Tk("RightParen"), Tk("LeftBrace"), Tk("If"),
           Tk("LeftParen"), Identifier("n"), O("GreaterThan"), FloatTk(1),
           Tk("RightParen"), Identifier("count"), Tk("LeftParen"),
           Identifier("n"), O("Minus"), FloatTk(1), Tk("RightParen"),
           Tk("Semicolon"), Tk("Print"), Identifier("n"), Tk("Semicolon"),
           Tk("RightBrace"), Identifier("count"), Tk("LeftParen"),
           FloatTk(2), Tk("RightParen"), Tk("Semicolon"), Tk("RightBrace") >>,
    (* fun outer() { fun count(n) { if (n > 1) count(n - 1); print n; }        *)
    (*               count(2); }  outer();                                     *)
      CountInFunction |->
        << Tk("Fun"), Identifier("outer"), Tk("LeftParen"),
           Tk("RightParen"), Tk("LeftBrace"), Tk("Fun"),
           Identifier("count"), Tk("LeftParen"), Identifier("n"),
           Tk("RightParen"), Tk("LeftBrace"), Tk("If"), Tk("LeftParen"),
           Identifier("n"), O("GreaterThan"), FloatTk(1), Tk("RightParen"),
           Identifier("count"), Tk("LeftParen"), Identifier("n"),
           O("Minus"), FloatTk(1), Tk("RightParen"), Tk("Semicolon"),
           Tk("Print"), Identifier("n"), Tk("Semicolon"), Tk("RightBrace"),
           Identifier("count"), Tk("LeftParen"), FloatTk(2),
           Tk("RightParen"), Tk("Semicolon"), Tk("RightBrace"),
           Identifier("outer"), Tk("LeftParen"), Tk("RightParen"),
           Tk("Semicolon") >>,
    (* { var a = 1; fun f() { a = 2; } f(); print a; } *)
      AssignEnclosingInFunction |->
        << Tk("LeftBrace"), Tk("Var"), Identifier("a"), Tk("Assign"),
           FloatTk(1), Tk("Semicolon"), Tk("Fun"), Identifier("f"),
           Tk("LeftParen"), Tk("RightParen"), Tk("LeftBrace"),
           Identifier("a"), Tk("Assign"), FloatTk(2), Tk("Semicolon"),
           Tk("RightBrace"), Identifier("f"), Tk("LeftParen"),
           Tk("RightParen"), Tk("Semicolon"), Tk("Print"), Identifier("a"),
           Tk("Semicolon"), Tk("RightBrace") >>,
    (* fun f() { print 1; }  print true and false;  print false or true;       *)
    (* print false and f();                                                    *)
      LogicalCall |->
        << Tk("Fun"), Identifier("f"), Tk("LeftParen"), Tk("RightParen"),
           Tk("LeftBrace"), Tk("Print"), FloatTk(1), Tk("Semicolon"),
           Tk("RightBrace"), Tk("Print"), BoolTk(TRUE), O("And"),
           BoolTk(FALSE), Tk("Semicolon"), Tk("Print"), BoolTk(FALSE),
           O("Or"), BoolTk(TRUE), Tk("Semicolon"), Tk("Print"),
           BoolTk(FALSE), O("And"), Identifier("f"), Tk("LeftParen"),
           Tk("RightParen"), Tk("Semicolon") >>,
    (* print 1 and true; *)
      LogicalNumber |->
        << Tk("Print"), FloatTk(1), O("And"), BoolTk(TRUE), Tk("Semicolon") >>,
    (* print (1 + 2) * 3; *)
      GroupingProduct |->
        << Tk("Print"), Tk("LeftParen"), FloatTk(1), O("Plus"), FloatTk(2),
           Tk("RightParen"), O("Star"), FloatTk(3), Tk("Semicolon") >>,
    (* if (1) print 1; else print 2; print 3; *)
      IfNumber |->
        << Tk("If"), Tk("LeftParen"), FloatTk(1), Tk("RightParen"),
           Tk("Print"), FloatTk(1), Tk("Semicolon"), Tk("Else"),
           Tk("Print"), FloatTk(2), Tk("Semicolon"), Tk("Print"),
           FloatTk(3), Tk("Semicolon") >>,
    (* while ("s") print 1; print 2; *)
      WhileString |->
        << Tk("While"), Tk("LeftParen"), StringTk("s"), Tk("RightParen"),
           Tk("Print"), FloatTk(1), Tk("Semicolon"), Tk("Print"),
           FloatTk(2), Tk("Semicolon") >>,
    (* var x; print 1; *)
      VarNoInitializer |->
        << Tk("Var"), Identifier("x"), Tk("Semicolon"), Tk("Print"),
           FloatTk(1), Tk("Semicolon") >>,
    (* fun f() print 1; f(); *)
      FunBodyNotBlock |->
        << Tk("Fun"), Identifier("f"), Tk("LeftParen"), Tk("RightParen"),
           Tk("Print"), FloatTk(1), Tk("Semicolon"), Identifier("f"),
           Tk("LeftParen"), Tk("RightParen"), Tk("Semicolon") >>,
    (* fun f(1) { print 2; } f(3); *)
      FunParameterNumber |->
        << Tk("Fun"), Identifier("f"), Tk("LeftParen"), FloatTk(1),
           Tk("RightParen"), Tk("LeftBrace"), Tk("Print"), FloatTk(2),
           Tk("Semicolon"), Tk("RightBrace"), Identifier("f"),
           Tk("LeftParen"), FloatTk(3), Tk("RightParen"), Tk("Semicolon") >>,
    (* fun f() { print 1; } print f() + 2; *)
      BinaryCallLeft |->
        << Tk("Fun"), Identifier("f"), Tk("LeftParen"), Tk("RightParen"),
           Tk("LeftBrace"), Tk("Print"), FloatTk(1), Tk("Semicolon"),
           Tk("RightBrace"), Tk("Print"), Identifier("f"), Tk("LeftParen"),
           Tk("RightParen"), O("Plus"), FloatTk(2), Tk("Semicolon") >> ]

(* fun f(a, a, ..., a) { }  with n parameters *)
SrcManyParameters(n) ==
    << Tk("Fun"), Identifier("f"), Tk("LeftParen") >>
    \o [i \in 1..(2 * n - 1) |->
            IF i % 2 = 1 THEN Identifier("a") ELSE Tk("Comma")]
    \o << Tk("RightParen"), Tk("LeftBrace"), Tk("RightBrace") >>

(* largest number of iterations of the counting loops among the inputs *)
MaxForCount == 3

(* for (var i = 0; i < n; i = i + 1) { print i; } print i; *)
SrcCountingFor(n) ==
    << Tk("For"), Tk("LeftParen"), Tk("Var"), Identifier("i"), Tk("Assign"),
       FloatTk(0), Tk("Semicolon"), Identifier("i"), O("LessThan"), FloatTk(n),
       Tk("Semicolon"), Identifier("i"), Tk("Assign"), Identifier("i"),
       O("Plus"), FloatTk(1), Tk("RightParen"), Tk("LeftBrace"), Tk("Print"),
       Identifier("i"), Tk("Semicolon"), Tk("RightBrace"), Tk("Print"),
       Identifier("i"), Tk("Semicolon") >>

(* var i = 0;                                                              *)
(* for (i = 0; i < 2; i = i + 1) { print i; i = i + 1; }                   *)
(* with each of the three clauses of the for there or left out             *)
SrcForClauses(initializer, condition, increment) ==
    << Tk("Var"), Identifier("i"), Tk("Assign"), FloatTk(0), Tk("Semicolon"),
       Tk("For"), Tk("LeftParen") >>
    \o (IF initializer
        THEN << Identifier("i"), Tk("Assign"), FloatTk(0) >>
        ELSE << >>)
    \o << Tk("Semicolon") >>
    \o (IF condition
        THEN << Identifier("i"), O("LessThan"), FloatTk(2) >>
        ELSE << >>)
    \o << Tk("Semicolon") >>
    \o (IF increment
        THEN << Identifier("i"), Tk("Assign"), Identifier("i"), O("Plus"),
                FloatTk(1) >>
        ELSE << >>)
    \o << Tk("RightParen"), Tk("LeftBrace"), Tk("Print"), Identifier("i"),
          Tk("Semicolon"), Identifier("i"), Tk("Assign"), Identifier("i"),
          O("Plus"), FloatTk(1), Tk("Semicolon"), Tk("RightBrace") >>

-----------------------------------------------------------------------------
(* Inputs: sources given to lexer().parse                                  *)

(* the characters of the short sources: those of the two-character tokens, *)
(* a blank, a character no rule matches, a quote, a letter and a digit     *)
LexAlphabet == {"=", "!", "<", ">", "/", "*", " ", "@", "\"", "a", "1"}

(* largest length of the short sources *)
MaxInputLen == 3

(* every source of at most MaxInputLen characters of LexAlphabet *)
ShortInputs == UNION {[1..n -> LexAlphabet] : n \in 0..MaxInputLen}

Text ==
    (* tests::lex_single_char: (} } . ; , + - /* ! = <> *)
    [ SingleChar |->
        << "(", "}", " ", "}", " ", ".", " ", ";", " ", ",", " ", "+", " ",
           "-", " ", "/", "*", " ", "!", " ", "=", " ", "<", ">" >>,
    (* tests::lex_double_char: == != <= >= // *)
      DoubleChar |->
        << "=", "=", " ", "!", "=", " ", "<", "=", " ", ">", "=", " ", "/",
           "/" >>,
    (* tests::lex_alpha_literal: a b c and if else *)
      AlphaLiteral |->
        << "a", " ", "b", " ", "c", " ", "a", "n", "d", " ", "i", "f", " ",
           "e", "l", "s", "e" >>,
    (* tests::lex_string: " a ""a" *)
      String |->
        << "\"", " ", "a", " ", "\"", "\"", "a", "\"" >>,
    (* tests::lex_float: 3.33 *)
      Float |->
        << "3", ".", "3", "3" >>,
    (* print 12; *)
      PrintFloat |->
        << "p", "r", "i", "n", "t", " ", "1", "2", ";" >>,
    (* print 1 @ 2; *)
      IllegalChar |->
        << "p", "r", "i", "n", "t", " ", "1", " ", "@", " ", "2", ";" >>,
    (* print 1; print "ab *)
      Unterminated |->
        << "p", "r", "i", "n", "t", " ", "1", ";", " ", "p", "r", "i", "n",
           "t", " ", "\"", "a", "b" >>,
    (* = = ! = < = > = / / *)
      Spaced |->
        << "=", " ", "=", " ", "!", " ", "=", " ", "<", " ", "=", " ", ">",
           " ", "=", " ", "/", " ", "/" >> ]

-----------------------------------------------------------------------------
(* Interpreter::new, Interpreter::interpret                                *)

Init ==
    /\ \/ /\ tokens = <<>>
          /\ \/ \E p \in DOMAIN Prog : statements = Prog[p]
             \/ \E arg \in 0..MaxFibArg : statements = ProgFib(arg)
          /\ pc = "parsed"
          /\ input = <<>>
       \/ /\ \/ \E s \in DOMAIN Src : tokens = Src[s]
             \/ \E n \in 0..MaxForCount : tokens = SrcCountingFor(n)
             \/ tokens = SrcManyParameters(MaxArguments + 1)
             \/ \E initializer, condition, increment \in BOOLEAN :
                    tokens = SrcForClauses(initializer, condition, increment)
          /\ statements = <<>>
          /\ pc = "tokens"
          /\ input = <<>>
       \/ /\ \/ input \in ShortInputs
             \/ \E t \in DOMAIN Text : input = Text[t]
          /\ tokens = <<>>
          /\ statements = <<>>
          /\ pc = "input"
    /\ stack = <<>>
    /\ val = NoneV
    /\ maps = << ("clock" :> ClockFn) >>
    /\ tables = << NewTable(1) >>
    /\ symbol_table = 1
    /\ globals = 1
    /\ ret = NoneV
    /\ out = <<>>
    /\ last = "new"

(* lexer().parse(&input).unwrap() *)
lex ==
    /\ pc = "input"
    /\ LET r == lexer(input, 1, <<>>)
       IN  IF r.ok
           THEN /\ tokens' = r.tokens
                /\ pc' = "tokens"
           ELSE /\ tokens' = tokens
                /\ pc' = "panic"
    /\ last' = "lex"
    /\ UNCHANGED <<input, statements, stack, val, tables, maps, symbol_table,
                   globals, ret, out>>

(* Parser::new followed by Parser::parse *)
parse ==
    /\ pc = "tokens"
    /\ LET r == parse_loop(tokens, 1, <<>>)
       IN  IF r.ok
           THEN /\ statements' = r.node
                /\ pc' = "parsed"
           ELSE /\ statements' = statements
                /\ pc' = "panic"
    /\ last' = "parse"
    /\ UNCHANGED <<input, tokens, stack, val, tables, maps, symbol_table,
                   globals, ret, out>>

interpret ==
    /\ pc = "parsed"
    /\ pc' = "run"
    /\ stack' = ExecAll(statements)
    /\ last' = "interpret"
    /\ UNCHANGED <<input, tokens, statements, val, tables, maps, symbol_table,
                   globals, ret, out>>

interpret_return ==
    /\ pc = "run"
    /\ stack = <<>>
    /\ pc' = "done"
    /\ last' = "interpret_return"
    /\ UNCHANGED <<input, tokens, statements, stack, val, tables, maps,
                   symbol_table,
                   globals, ret, out>>

Next ==
    \/ lex
    \/ parse
    \/ interpret
    \/ interpret_return
    \/ execute
    \/ visit_expr_stmt
    \/ visit_print
    \/ visit_print_write
    \/ visit_var_decl
    \/ visit_var_decl_define
    \/ visit_block
    \/ execute_block_exit
    \/ visit_if
    \/ visit_if_branch
    \/ visit_while
    \/ visit_while_test
    \/ visit_function_decl
    \/ visit_return
    \/ visit_return_value
    \/ visit_literal
    \/ visit_unary
    \/ visit_unary_apply
    \/ visit_binary
    \/ visit_binary_string_left
    \/ visit_binary_string_right
    \/ visit_binary_float_left
    \/ visit_binary_float_right
    \/ visit_logical
    \/ visit_logical_left
    \/ visit_logical_right
    \/ visit_grouping
    \/ visit_assign
    \/ visit_assign_store
    \/ visit_variable
    \/ visit_call
    \/ visit_call_callee
    \/ visit_call_argument
    \/ visit_call_check
    \/ Clock_call
    \/ Function_call
    \/ Function_call_return

Spec == Init /\ [][Next]_vars

Terminated == pc \in {"done", "panic"}

-----------------------------------------------------------------------------
(* Properties                                                              *)

(* the token sequence handed to the parser is src (compared token by       *)
(* token: the kind first, and the payload only for the same kind)          *)
Given(src) ==
    /\ Len(tokens) = Len(src)
    /\ \A i \in 1..Len(src) :
           /\ tokens[i].tok = src[i].tok
           /\ "v" \in DOMAIN src[i] => tokens[i].v = src[i].v

(* the n-th Fibonacci number *)
RECURSIVE Fib(_)
Fib(n) == IF n <= 1 THEN n ELSE Fib(n - 1) + Fib(n - 2)

(* the tables on the scope chain that starts at table i, nearest first *)
RECURSIVE Chain(_)
Chain(i) == IF i = 0 THEN <<>> ELSE <<i>> \o Chain(tables[i].enclosing)

(* the positions on the current scope chain whose table defines name *)
Defining(name) ==
    {k \in 1..Len(Chain(symbol_table)) :
        name \in DOMAIN maps[tables[Chain(symbol_table)[k]].values]}

(* the map of the nearest table on the current scope chain that defines    *)
(* name                                                                    *)
Nearest(name) ==
    LET k == CHOOSE k \in Defining(name) : \A j \in Defining(name) : k <= j
    IN  tables[Chain(symbol_table)[k]].values

(* C1: early return.  For fun f() { print 1; return 2; print 3; } followed *)
(* by print f(); the output of the finished program is 1 then 2, and 3 is  *)
(* never printed.                                                          *)
EarlyReturnOutput ==
    /\ (statements = Prog.EarlyReturn /\ Terminated)
           => out = <<FmtFloat(1), FmtFloat(2)>>
    /\ (statements = Prog.NestedReturn /\ Terminated) => out = <<FmtFloat(1)>>

(* C2: a return unwinds exactly one call frame.  Whenever control is back  *)
(* in the caller after a call of a user function, the pending-return slot  *)
(* is empty, so the statements that follow the call still execute: for     *)
(* fun f() { return 1; } f(); print 2; the finished program has printed 2. *)
ReturnSlotClearedAfterCall ==
    /\ last = "Function_call_return" => ret = NoneV
    /\ (statements = Prog.ReturnThenPrint /\ Terminated) => out = <<FmtFloat(2)>>

(* C3: a return inside the body of a while loop escapes the loop: the loop *)
(* condition is not evaluated again while the return is pending.           *)
ReturnEscapesWhile ==
    ~(/\ pc = "run"
      /\ ret # NoneV
      /\ Len(stack) >= 2
      /\ stack[1].op = "eval"
      /\ stack[2].op = "while")

(* C4: the value of a call of a user function is the value of the return   *)
(* executed during the call, and nil when the body ends without a return   *)
(* or with a bare return; the call always yields a value the caller can    *)
(* print or bind.                                                          *)
CallYieldsReturnValue ==
    /\ last = "Function_call_return" => val # NoneV
    /\ (statements = Prog.FunctionReturn /\ Terminated) => out = <<FmtFloat(1)>>
    /\ (statements = Prog.BareReturn /\ Terminated) => out = <<FmtObject(Nil)>>
    /\ (statements = Prog.NoReturn /\ Terminated) => out = <<FmtObject(Nil)>>

(* C5: recursion.  print fibonacci(n); prints the n-th Fibonacci number,   *)
(* for every n up to MaxFibArg.                                            *)
FibonacciComputes ==
    \A n \in 0..MaxFibArg :
        (statements = ProgFib(n) /\ Terminated) => out = <<FmtFloat(Fib(n))>>

(* C6: the parser accepts a return statement.  fun f() { return 1; } and   *)
(* fun f() { return; } parse, without aborting, into a function whose body *)
(* holds a Return node with the optional expression.                       *)
ParserAcceptsReturn ==
    /\ (Given(Src.Return) /\ last = "parse")
           => /\ pc = "parsed"
              /\ statements = <<Function(Identifier("f"), Some(<<>>),
                                         Block(<<Return(Num(1))>>))>>
    /\ (Given(Src.ReturnBare) /\ last = "parse")
           => /\ pc = "parsed"
              /\ statements = <<Function(Identifier("f"), Some(<<>>),
                                         Block(<<Return(NoneV)>>))>>

(* C7: the scope a closure captured outlives the call that made it.  For   *)
(* fun make() { var x = 1; fun inner() { return x; } return inner; }       *)
(* var g = make(); print g(); the finished program has printed 1.          *)
ClosureOutlivesCall ==
    (statements = Prog.Closure /\ Terminated) => out = <<FmtFloat(1)>>

(* C8: a closure captures its defining scope by reference.  A call reads   *)
(* the value a captured variable was assigned after the declaration        *)
(* (global or block-local), and an assignment made by the body is seen in  *)
(* the defining scope afterwards.                                          *)
ClosureCapturesByReference ==
    /\ (Given(Src.ClosureAssign) /\ Terminated) => out = <<FmtFloat(2)>>
    /\ (Given(Src.ClosureRead) /\ Terminated) => out = <<FmtFloat(2)>>
    /\ (Given(Src.ClosureReadLocal) /\ Terminated) => out = <<FmtFloat(2)>>

(* C9: an assignment overwrites the binding of the name in the nearest     *)
(* table of the scope chain that defines it and changes no other binding   *)
(* of any table; when no table of the chain defines the name the program   *)
(* aborts and no table gains a binding.                                    *)
AssignOverwritesNearest ==
    [][(IsCont("assign") /\ val # NoneV)
           => IF Defining(Top.name) = {}
              THEN pc' = "panic" /\ maps' = maps /\ tables' = tables
              ELSE /\ pc' = pc
                   /\ tables' = tables
                   /\ Len(maps') = Len(maps)
                   /\ \A m \in 1..Len(maps) :
                          /\ DOMAIN maps'[m] = DOMAIN maps[m]
                          /\ \A x \in DOMAIN maps[m] :
                                 maps'[m][x] =
                                     IF m = Nearest(Top.name) /\ x = Top.name
                                     THEN val
                                     ELSE maps[m][x]]_vars

(* an assignment in a block two levels below the globals has overwritten   *)
(* the global a, which neither block defines                               *)
AssignReachedAncestor ==
    /\ Given(Src.AssignNested)
    /\ last = "visit_assign_store"
    /\ Len(Chain(symbol_table)) = 3
    /\ Defining("a") = {3}
    /\ maps[tables[globals].values]["a"] = Float(3)

(* C10: shadowing.  A variable declaration changes the binding of its name *)
(* in the current table only: every other table keeps all its bindings,    *)
(* and the name then resolves to the declared value.  When a block ends    *)
(* the enclosing table is current again and no binding has changed, so     *)
(* the name resolves to the enclosing scope's value as before.             *)
ShadowingLeavesEnclosing ==
    [][/\ (IsCont("var_decl") /\ val # NoneV)
              => /\ tables' = tables
                 /\ symbol_table' = symbol_table
                 /\ Len(maps') = Len(maps)
                 /\ \A m \in 1..Len(maps) : m # Cur.values => maps'[m] = maps[m]
                 /\ \A x \in DOMAIN maps[Cur.values] \ {Top.name} :
                        /\ x \in DOMAIN maps'[Cur.values]
                        /\ maps'[Cur.values][x] = maps[Cur.values][x]
                 /\ get(maps', tables', tables'[symbol_table'], Top.name)
                        = [ok |-> TRUE, v |-> val]
       /\ (IsCont("block_exit") /\ Cur.enclosing # 0)
              => /\ symbol_table' = Cur.enclosing
                 /\ maps' = maps
                 /\ tables' = tables]_vars

(* the blocks of tests::interpret_blocks have run: a is shadowed twice and *)
(* each block's end brings the enclosing a back                            *)
BlocksShadowAndRestore ==
    /\ Given(Src.Blocks)
    /\ pc = "done"
    /\ out = << FmtObject(String("inner a")), FmtObject(String("outer b")),
                FmtObject(String("global c")), FmtObject(String("outer a")),
                FmtObject(String("outer b")), FmtObject(String("global c")),
                FmtObject(String("global a")), FmtObject(String("global b")),
                FmtObject(String("global c")) >>

(* C11: a call whose number of arguments differs from the arity of the     *)
(* callee aborts before the body runs: the step that compares them panics  *)
(* and leaves the output, the tables, the maps and the control stack as    *)
(* they are, and Callable::call is entered only with as many arguments as  *)
(* the arity.                                                              *)
ArityMismatchBeforeBody ==
    [][/\ (IsCont("call_check") /\ Len(Top.args) # arity(Top.callee))
              => /\ pc' = "panic"
                 /\ out' = out
                 /\ maps' = maps
                 /\ tables' = tables
                 /\ symbol_table' = symbol_table
                 /\ stack' = stack
       /\ IsCont("call") => Len(Top.arguments) = arity(Top.callee)]_vars

(* f, declared with one parameter and a body that prints, has been called  *)
(* with two arguments: the process has aborted with nothing printed and no *)
(* table made for the call                                                 *)
ArityMismatchAborted ==
    /\ Given(Src.ArityMore)
    /\ pc = "panic"
    /\ last = "visit_call_check"
    /\ Len(Top.args) = 2
    /\ arity(Top.callee) = 1
    /\ out = <<>>
    /\ Len(tables) = 1

(* the top frame is a step of visit_binary *)
InBinary ==
    /\ pc = "run"
    /\ stack # <<>>
    /\ Top.op \in {"binary_string_left", "binary_string_right",
                   "binary_float_left", "binary_float_right"}

(* C12: a binary operator yields a value only for two strings, which +     *)
(* concatenates, or for two numbers; operands of different types abort     *)
(* with no value and nothing is coerced: "a" + 1 and 1 + "a" abort with    *)
(* nothing printed, as do "a" - "b" and true == false.                     *)
BinaryTypeMismatch ==
    [][/\ (InBinary /\ pc' = "run" /\ stack' = Rest)
              => \/ /\ Top.op = "binary_string_right"
                    /\ val.t = "String"
                    /\ Top.e.operator = "Plus"
                    /\ val' = String(Top.left \o val.v)
                 \/ /\ Top.op = "binary_float_right"
                    /\ val.t = "Float"
                    /\ val' = FloatOp(Top.left, Top.e.operator, val.v)
       /\ ((Given(Src.StringPlusNumber) \/ Given(Src.NumberPlusString))
              /\ pc' \in {"done", "panic"})
              => pc' = "panic" /\ out' = <<>>
       /\ (Given(Src.StringMinusString) /\ pc' \in {"done", "panic"})
              => /\ pc' = "panic"
                 /\ out' = <<FmtObject(String("ab")), FmtFloat(3)>>
       /\ (Given(Src.BoolEqualBool) /\ pc' \in {"done", "panic"})
              => pc' = "panic" /\ out' = <<FmtObject(Bool(TRUE))>>]_vars

(* print "a" + 1; has aborted in visit_binary on the left operand, a       *)
(* string, evaluated again and tried as a number; nothing is printed       *)
StringPlusNumberAborted ==
    /\ Given(Src.StringPlusNumber)
    /\ pc = "panic"
    /\ last = "visit_binary_float_left"
    /\ val = String("a")
    /\ out = <<>>

(* the lines 0, 1, ..., n - 1 *)
Counted(n) == [k \in 1..n |-> FmtFloat(k - 1)]

(* C13: the counting loop for (var i = 0; i < n; i = i + 1) { print i; }   *)
(* runs its body n times with i = 0, 1, ..., n - 1 in that order: the      *)
(* output is at every moment a prefix of these n lines and is all of them  *)
(* when the program ends; after the loop i is not visible, so the print i  *)
(* that follows the loop aborts in visit_variable.                         *)
CountingForLoop ==
    /\ \A n \in 0..MaxForCount :
           Given(SrcCountingFor(n))
               => /\ Len(out) <= n
                  /\ out = SubSeq(Counted(n), 1, Len(out))
                  /\ Terminated
                         => /\ out = Counted(n)
                            /\ pc = "panic"
                            /\ last = "visit_variable"
    /\ (Given(Src.For) /\ Terminated) => pc = "done" /\ out = Counted(3)

(* the longest counting loop has ended after printing all its lines, and   *)
(* the statement after it did not find i                                   *)
CountingForLoopEnded ==
    /\ Given(SrcCountingFor(MaxForCount))
    /\ pc = "panic"
    /\ last = "visit_variable"
    /\ Len(out) = MaxForCount
    /\ out[MaxForCount] = FmtFloat(MaxForCount - 1)

(* C14: reading a variable yields the value bound in the nearest table of  *)
(* the scope chain (the current one first, then outward) that defines the  *)
(* name, aborts exactly when no table of the chain defines it, and changes *)
(* no table and no binding.                                                *)
GetReadsNearest ==
    [][(IsEval("Variable") /\ Top.e.name.tok = "Identifier")
           => /\ maps' = maps
              /\ tables' = tables
              /\ symbol_table' = symbol_table
              /\ IF Defining(Top.e.name.v) = {}
                 THEN pc' = "panic"
                 ELSE /\ pc' = "run"
                      /\ stack' = Rest
                      /\ val' = maps[Nearest(Top.e.name.v)][Top.e.name.v]]_vars

(* in the innermost block of tests::interpret_blocks, c, which only the    *)
(* globals define, has been read through two enclosing tables, and a,      *)
(* which all three tables define, is bound to the innermost value          *)
GetReachedGlobals ==
    /\ Given(Src.Blocks)
    /\ last = "visit_variable"
    /\ Len(Chain(symbol_table)) = 3
    /\ Defining("c") = {3}
    /\ Defining("a") = {1, 2, 3}
    /\ val = String("global c")

(* C15: the tables form a tree rooted at the one table of the globals: the *)
(* chain of enclosing tables of every table, the current one and those     *)
(* made for blocks and for calls, ends at the globals, and no other table  *)
(* is without an enclosing table.                                          *)
ScopeTreeSingleRoot ==
    /\ Chain(symbol_table)[Len(Chain(symbol_table))] = globals
    /\ \A i \in 1..Len(tables) :
           /\ Chain(i)[Len(Chain(i))] = globals
           /\ tables[i].enclosing = 0 => i = globals

(* C16: the lexer accounts for every character of the source.  A source    *)
(* without quotes is consumed to its end, and a character that no rule     *)
(* matches becomes an Illegal token after which lexing goes on: a@a gives  *)
(* Identifier a, Illegal @, Identifier a, and print 1 @ 2; gives five      *)
(* tokens.                                                                 *)
LexerAccountsForInput ==
    (last = "lex" /\ pc = "tokens")
        => /\ (\A i \in 1..Len(input) : input[i] # "\"")
                  => lexer(input, 1, <<>>).pos = Len(input) + 1
           /\ input = <<"a", "@", "a">>
                  => Given(<<Identifier("a"), Illegal("@"), Identifier("a")>>)
           /\ input = Text.IllegalChar
                  => Given(<<Tk("Print"), FloatTk(1), Illegal("@"), FloatTk(2),
                             Tk("Semicolon")>>)

(* C17: a source with an opening quote and no closing quote (one quote in  *)
(* all, and no comment marker) is a lexical error: lexing it does not      *)
(* return a token sequence.                                                *)
UnterminatedStringIsError ==
    (/\ last = "lex"
     /\ Cardinality({i \in 1..Len(input) : input[i] = "\""}) = 1
     /\ \A i \in 1..Len(input) : input[i] # "/")
        => pc = "panic"

(* the characters at j and j + 1 of the source, when there are two *)
Pair(j) == IF j < Len(input) THEN <<input[j], input[j + 1]>> ELSE <<>>

(* C18: maximal munch.  At every position of the source the token rule     *)
(* gives the two-character token when the two characters there form one    *)
(* (==, !=, <=, >=, //), and the single-character token of the first       *)
(* character otherwise; so == is Equal while = = is Assign, Assign, <> is  *)
(* LessThan, GreaterThan, and /* is Slash, Star.                           *)
MaximalMunch ==
    (last = "lex" /\ pc = "tokens")
        => /\ \A j \in 1..Len(input) :
                  /\ Pair(j) = <<"=", "=">>
                         => token(input, j) = Match(O("Equal"), j + 2)
                  /\ Pair(j) = <<"!", "=">>
                         => token(input, j) = Match(O("NotEqual"), j + 2)
                  /\ Pair(j) = <<"<", "=">>
                         => token(input, j) = Match(O("LessThanOrEqual"), j + 2)
                  /\ Pair(j) = <<">", "=">>
                         => token(input, j)
                                = Match(O("GreaterThanOrEqual"), j + 2)
                  /\ Pair(j) = <<"/", "/">>
                         => token(input, j) = Match(Tk("Comment"), j + 2)
                  /\ (input[j] = "=" /\ Pair(j) # <<"=", "=">>)
                         => token(input, j) = Match(Tk("Assign"), j + 1)
                  /\ (input[j] = "!" /\ Pair(j) # <<"!", "=">>)
                         => token(input, j) = Match(O("Not"), j + 1)
                  /\ (input[j] = "<" /\ Pair(j) # <<"<", "=">>)
                         => token(input, j) = Match(O("LessThan"), j + 1)
                  /\ (input[j] = ">" /\ Pair(j) # <<">", "=">>)
                         => token(input, j) = Match(O("GreaterThan"), j + 1)
                  /\ (input[j] = "/" /\ Pair(j) # <<"/", "/">>)
                         => token(input, j) = Match(O("Slash"), j + 1)
                  /\ input[j] = "*"
                         => token(input, j) = Match(O("Star"), j + 1)
           /\ input = <<"=", "=">> => Given(<<O("Equal")>>)
           /\ input = <<"=", " ", "=">> => Given(<<Tk("Assign"), Tk("Assign")>>)
           /\ input = <<"<", ">">> => Given(<<O("LessThan"), O("GreaterThan")>>)
           /\ input = <<"/", "*">> => Given(<<O("Slash"), O("Star")>>)
           /\ input = Text.DoubleChar
                  => Given(<<O("Equal"), O("NotEqual"), O("LessThanOrEqual"),
                             O("GreaterThanOrEqual"), Tk("Comment")>>)
           /\ input = Text.Spaced
                  => Given(<<Tk("Assign"), Tk("Assign"), O("Not"), Tk("Assign"),
                             O("LessThan"), Tk("Assign"), O("GreaterThan"),
                             Tk("Assign"), O("Slash"), O("Slash")>>)

(* <== has been lexed: the first two characters are one token and the      *)
(* third is a token of its own                                             *)
MunchedLessThanOrEqual ==
    /\ last = "lex"
    /\ input = <<"<", "=", "=">>
    /\ Given(<<O("LessThanOrEqual"), Tk("Assign")>>)

(* the text of a printed value: booleans as true and false, strings in     *)
(* quotes, nil as nil, a user function as <fn name>, the native clock as   *)
(* <native fn clock>                                                       *)
PrintedText(v) ==
    CASE v.t = "Bool" -> IF v.v THEN "true" ELSE "false"
      [] v.t = "String" -> "\"" \o v.v \o "\""
      [] v.t = "Nil" -> "nil"
      [] v.t = "C" -> IF v.kind = "Clock"
                      THEN "<native fn clock>"
                      ELSE "<fn " \o v.declaration.name.v \o ">"

(* C19: a print statement that has executed has appended one line, the     *)
(* text of the printed value, to the output: var x = nil; print x;         *)
(* print true; print "s"; print clock; writes nil, true, "s" and           *)
(* <native fn clock>, and print bob; of a function bob writes <fn bob>.    *)
PrintAppendsValueText ==
    /\ last = "visit_print_write"
           => /\ out # <<>>
              /\ val.t # "Float" => out[Len(out)] = PrintedText(val)
    /\ (Given(Src.PrintNil) /\ Terminated)
           => out = <<"nil", "true", "\"s\"", "<native fn clock>">>
    /\ (Given(Src.Function) /\ Terminated) => out = <<FmtFloat(7), "<fn bob>">>

(* C20: the parser limits a declaration to MaxArguments parameters:        *)
(* parsing a declaration with one parameter more aborts.                   *)
ParserLimitsArguments ==
    (last = "parse" /\ Given(SrcManyParameters(MaxArguments + 1)))
        => pc = "panic"

(* the loop a for statement with these clauses is rewritten into: a While  *)
(* on the condition whose body is the body of the for followed by the      *)
(* increment                                                               *)
ForLoop(stmt, condition, increment) ==
    LET body == Block(<<PrintStmt(Var("i")),
                        ExprStmt(Assign(Identifier("i"),
                                        Binary(Var("i"), "Plus", Num(1))))>>)
    IN  /\ stmt.k = "While"
        /\ condition => stmt.condition = Binary(Var("i"), "LessThan", Num(2))
        /\ stmt.body = IF increment
                       THEN Block(<<body,
                                    ExprStmt(Assign(Identifier("i"),
                                                    Binary(Var("i"), "Plus",
                                                           Num(1))))>>)
                       ELSE body

(* C21: a for statement is rewritten by the parser into the initializer,   *)
(* when there is one, followed in a block by a While whose body is the     *)
(* body of the for followed by the increment, when there is one; this for  *)
(* every combination of clauses there or left out, so a for without a      *)
(* condition is still a While.                                             *)
ForDesugarsToWhile ==
    \A initializer, condition, increment \in BOOLEAN :
        (last = "parse" /\ Given(SrcForClauses(initializer, condition, increment)))
            => /\ pc = "parsed"
               /\ Len(statements) = 2
               /\ IF initializer
                  THEN /\ statements[2].k = "Block"
                       /\ Len(statements[2].stmts) = 2
                       /\ statements[2].stmts[1]
                              = ExprStmt(Assign(Identifier("i"), Num(0)))
                       /\ ForLoop(statements[2].stmts[2], condition, increment)
                  ELSE ForLoop(statements[2], condition, increment)

(* the scopes entered and not yet left, innermost first: the current one   *)
(* and, for every execute_block still running, the one it will put back    *)
ActiveScopes ==
    <<symbol_table>>
    \o [j \in 1..Len(SelectSeq(stack, LAMBDA f : f.op = "block_exit")) |->
            SelectSeq(stack, LAMBDA f : f.op = "block_exit")[j].previous_env]

(* C22: executing a block makes one new table whose enclosing table is the *)
(* current one and makes it current; every step of the statements inside   *)
(* leaves the scopes under the innermost one as they are; and the end of   *)
(* the block makes current again exactly the table that was current when   *)
(* the block was entered, also when a return is pending and also for the   *)
(* table made for a call of a function.  A finished program is back in the *)
(* globals.                                                                *)
BlockRestoresScope ==
    [][/\ IsExec("Block")
              => /\ tables' = Append(tables, [enclosing |-> symbol_table,
                                              values |-> Len(maps) + 1])
                 /\ maps' = Append(maps, << >>)
                 /\ symbol_table' = Len(tables) + 1
                 /\ ActiveScopes' = <<symbol_table'>> \o ActiveScopes
                 /\ SubSeq(stack', 1, Len(Top.s.stmts)) = ExecAll(Top.s.stmts)
                 /\ stack'[Len(Top.s.stmts) + 1].op = "block_exit"
       /\ (IsCont("call") /\ Top.callee.kind = "Function" /\ pc' = "run")
              => /\ Len(tables') = Len(tables) + 1
                 /\ symbol_table' = Len(tables) + 1
                 /\ ActiveScopes' = <<symbol_table'>> \o ActiveScopes
       /\ IsCont("block_exit")
              => /\ Len(ActiveScopes) >= 2
                 /\ symbol_table' = ActiveScopes[2]
                 /\ ActiveScopes' = Tail(ActiveScopes)
                 /\ tables' = tables
                 /\ maps' = maps
       /\ (/\ pc = "run"
           /\ ~IsExec("Block")
           /\ ~(IsCont("call") /\ Top.callee.kind = "Function")
           /\ ~IsCont("block_exit"))
              => ActiveScopes' = ActiveScopes
       /\ pc' = "done" => symbol_table' = globals /\ ActiveScopes' = <<globals>>]_vars

(* in fun f() { { if (true) { print 1; return 2; } print 3; } print 4; }   *)
(* the inner block has ended with the return pending, and the table of the *)
(* outer block is current again                                            *)
BlockLeftOnReturn ==
    /\ statements = Prog.NestedReturn
    /\ last = "execute_block_exit"
    /\ ret = Right(Float(2))
    /\ Len(ActiveScopes) = 3
    /\ tables[symbol_table].enclosing = ActiveScopes[2]
    /\ Len(tables) = 4
    /\ out = <<FmtFloat(1)>>

(* C23: a function can call itself wherever it is declared.  The counting  *)
(* function fun count(n) { if (n > 1) count(n - 1); print n; } called with *)
(* 2 prints 1 then 2 and the program ends, when it is declared at top      *)
(* level, inside a block, and inside the body of another function.         *)
RecursionWhereverDeclared ==
    ((Given(Src.Count) \/ Given(Src.CountInBlock) \/ Given(Src.CountInFunction))
         /\ Terminated)
        => pc = "done" /\ out = <<FmtFloat(1), FmtFloat(2)>>

(* C24: an assignment made by the body of a function to a variable the     *)
(* body does not declare changes the binding of the scope outside: after   *)
(* var a = 1; fun f() { a = 2; } f(); the statement print a; prints 2,     *)
(* both when a is a global and when a and f are declared in a block; and   *)
(* var a = 1; fun f(b) { b = 2; a = 3; print a + b; } f(1); print a;       *)
(* prints 5 then 3.                                                        *)
AssignInBodyMutatesOuter ==
    /\ ((Given(Src.ClosureAssign) \/ Given(Src.AssignEnclosingInFunction))
            /\ Terminated)
           => pc = "done" /\ out = <<FmtFloat(2)>>
    /\ (Given(Src.AssignInFunction) /\ Terminated)
           => pc = "done" /\ out = <<FmtFloat(5), FmtFloat(3)>>

(* C25: `and` and `or` do not short-circuit.  Once the left operand has    *)
(* given a boolean, true or false, the right operand is evaluated next;    *)
(* an operand that is not a boolean aborts the program; and two booleans   *)
(* give their conjunction or disjunction.  So print false and (b = true);  *)
(* prints false and leaves b true, and print false and f(); runs the body  *)
(* of f.                                                                   *)
LogicalEvaluatesBoth ==
    [][/\ IsCont("logical_left")
              => IF val.t = "Bool"
                 THEN /\ pc' = "run"
                      /\ Head(stack') = EvalFrame(Top.e.right)
                      /\ Len(stack') = Len(stack) + 1
                 ELSE pc' = "panic"
       /\ IsCont("logical_right")
              => IF val.t = "Bool"
                 THEN /\ pc' = "run"
                      /\ stack' = Rest
                      /\ Top.e.operator = "And" => val' = Bool(Top.left /\ val.v)
                      /\ Top.e.operator = "Or" => val' = Bool(Top.left \/ val.v)
                 ELSE pc' = "panic"
       /\ (statements = Prog.LogicalAssign /\ pc' = "done")
              => out' = <<"false", "true", "true", "false">>
       /\ (Given(Src.LogicalCall) /\ pc' \in {"done", "panic"})
              => pc' = "panic" /\ out' = <<"false", "true", FmtFloat(1)>>
       /\ (Given(Src.LogicalNumber) /\ pc' \in {"done", "panic"})
              => pc' = "panic" /\ out' = <<>>]_vars

(* print false and (b = true); print b; print true or (b = false);         *)
(* print b; has ended: each right operand was evaluated and its assignment *)
(* made, though the left operand alone decided the result                  *)
LogicalRightAssigned ==
    /\ statements = Prog.LogicalAssign
    /\ pc = "done"
    /\ out = <<"false", "true", "true", "false">>
    /\ maps[tables[globals].values]["b"] = Bool(FALSE)

(* C26: a grouping has the value of the expression inside it, which is     *)
(* evaluated once, and never aborts by itself: print (1); prints 1 and     *)
(* print (1 + 2) * 3; prints 9.                                            *)
GroupingPassesValue ==
    /\ (pc = "panic" => last # "visit_grouping")
    /\ (Given(Src.Grouping) /\ Terminated)
           => pc = "done" /\ out = <<FmtFloat(1)>>
    /\ (Given(Src.GroupingProduct) /\ Terminated)
           => pc = "done" /\ out = <<FmtFloat(9)>>

(* C27: the condition of an if and of a while must be a boolean.  The      *)
(* branch is chosen and the loop is continued or ended only on a boolean;  *)
(* a condition that is a number, a string, nil or a callable aborts the    *)
(* program: if (1) print 1; else print 2; print 3; and                     *)
(* while ("s") print 1; print 2; abort with nothing printed.               *)
ConditionMustBeBoolean ==
    /\ (last \in {"visit_if_branch", "visit_while_test"} /\ pc = "run")
           => val.t = "Bool"
    /\ ((Given(Src.IfNumber) \/ Given(Src.WhileString)) /\ Terminated)
           => pc = "panic" /\ out = <<>>

(* C28: var x; is one declaration statement that ends with its semicolon:  *)
(* var x; print 1; parses into the declaration of x, with nil as           *)
(* initializer, followed by the print statement, and running it defines x  *)
(* as nil in the globals; var x = 5; defines x as 5.                       *)
VarWithoutInitializer ==
    /\ (Given(Src.VarNoInitializer) /\ last = "parse")
           => /\ pc = "parsed"
              /\ statements = <<VariableStmt(Identifier("x"), L(Nil)),
                                PrintStmt(Num(1))>>
    /\ (Given(Src.VarNoInitializer) /\ Terminated)
           => /\ pc = "done"
              /\ "x" \in DOMAIN maps[tables[globals].values]
              /\ maps[tables[globals].values]["x"] = Nil
    /\ (Given(Src.Var) /\ Terminated)
           => /\ pc = "done"
              /\ maps[tables[globals].values]["x"] = Float(5)

(* C29: the parser accepts a function declaration only with identifiers as *)
(* parameters and one block as body: every Function statement it gives has *)
(* a Block body and only Identifier parameters, and parsing                *)
(* fun f() print 1; f(); or fun f(1) { print 2; } f(3); aborts.            *)
FunctionDeclarationShape ==
    /\ (last = "parse" /\ pc = "parsed")
           => \A i \in 1..Len(statements) :
                  statements[i].k = "Function"
                      => /\ statements[i].body.k = "Block"
                         /\ \A j \in 1..Len(statements[i].parameters.v) :
                                statements[i].parameters.v[j].tok = "Identifier"
    /\ ((Given(Src.FunBodyNotBlock) \/ Given(Src.FunParameterNumber))
            /\ last = "parse")
           => pc = "panic"

(* C30: a binary expression evaluates its left operand once, then its      *)
(* right operand at most once, so the side effects of the left operand     *)
(* happen once: var a = 0; print (a = a + 1) + 1; print a; prints 2 then   *)
(* 1, and in fun f() { print 1; } print f() + 2; the body of f runs once,  *)
(* so 1 is printed once.                                                   *)
BinaryEvaluatesLeftOnce ==
    /\ (statements = Prog.BinaryAssignLeft /\ Terminated)
           => pc = "done" /\ out = <<FmtFloat(2), FmtFloat(1)>>
    /\ Given(Src.BinaryCallLeft) => Len(out) <= 1

====
